---------------------------- MODULE Spec2Model ----------------------------
(***************************************************************************)
(* Schoolter data pipeline: the seeded PRNG, the synthetic generators and  *)
(* the enrichment orchestrator of server/pipeline/extract.js (two          *)
(* variants) and the generators of server/db/export.js.                    *)
(*                                                                         *)
(* Numbers.  A 32-bit word is a pair <<hi, lo>> of 16-bit halves, so that  *)
(* every intermediate product stays inside 32-bit integers.                *)
(* A decimal the code holds in a double is held here as a scaled integer;  *)
(* the comment at each field gives its unit (tenths, hundredths, ...).     *)
(* Products and quotients are exact and then rounded as Math.round and     *)
(* toFixed round an exact value.  A binary double may lie a hair beside a  *)
(* rounding boundary and then goes the other way: roundTimes lists the     *)
(* products of a multiplier where it does, and the school records and rng  *)
(* arguments below meet no other such boundary.                            *)
(***************************************************************************)
EXTENDS Integers, Sequences, FiniteSets, TLC

\* null.  A field that may be null holds <<>> when it is; a number or a
\* string in such a field is held as the one-element tuple <<v>>, a record
\* or a tuple as itself.
null == <<>>

\* undefined: a property that has not been assigned
undefined == [undefined |-> TRUE]

\* ------------------------------------------------------------------------
\* 32-bit words
\* ------------------------------------------------------------------------
B16 == 2^16
B8 == 2^8

RECURSIVE XorBits(_, _)
XorBits(a, b) ==
  IF a = 0 THEN b
  ELSE IF b = 0 THEN a
  ELSE (((a % 2) + (b % 2)) % 2) + 2 * XorBits(a \div 2, b \div 2)

RECURSIVE OrBits(_, _)
OrBits(a, b) ==
  IF a = 0 THEN b
  ELSE IF b = 0 THEN a
  ELSE (IF (a % 2) + (b % 2) > 0 THEN 1 ELSE 0) + 2 * OrBits(a \div 2, b \div 2)

\* byte tables of ^ and of | 61
XorTab == [a \in 0..(B8 - 1) |-> [b \in 0..(B8 - 1) |-> XorBits(a, b)]]
Or61Tab == [a \in 0..(B8 - 1) |-> OrBits(a, 61)]

Xor16(a, b) == XorTab[a \div B8][b \div B8] * B8 + XorTab[a % B8][b % B8]

\* w ^ v
Xor32(w, v) == <<Xor16(w[1], v[1]), Xor16(w[2], v[2])>>

\* t | 1 and t | 61
Or1(w) == <<w[1], IF w[2] % 2 = 0 THEN w[2] + 1 ELSE w[2]>>
Or61(w) == <<w[1], (w[2] \div B8) * B8 + Or61Tab[w[2] % B8]>>

\* w >>> k, 0 < k < 16
Shr32(w, k) ==
  <<w[1] \div (2^k),
    (w[1] % (2^k)) * (2^(16 - k)) + (w[2] \div (2^k))>>

\* (w + v) mod 2^32
Add32(w, v) ==
  LET lo == w[2] + v[2]
  IN  <<(w[1] + v[1] + (lo \div B16)) % B16, lo % B16>>

\* low 16 bits of x * y, x and y below 2^16, through 8-bit limbs
MulLo16(x, y) ==
  LET x1 == x \div B8  x0 == x % B8
      y1 == y \div B8  y0 == y % B8
  IN  (((x1 * y0 + x0 * y1) % B8) * B8 + x0 * y0) % B16

\* bits 16.. of x * y, x and y below 2^16
MulHi16(x, y) ==
  LET x1 == x \div B8  x0 == x % B8
      y1 == y \div B8  y0 == y % B8
      mid == x1 * y0 + x0 * y1
  IN  x1 * y1 + ((mid * B8 + x0 * y0) \div B16)

\* Math.imul: the low 32 bits of w * v
imul(w, v) ==
  <<(MulHi16(w[2], v[2]) + MulLo16(w[1], v[2]) + MulLo16(w[2], v[1])) % B16,
    MulLo16(w[2], v[2])>>

\* seed | 0 as a word, for -2^31 < n < 2^31
Word(n) ==
  IF n >= 0 THEN <<n \div B16, n % B16>>
  ELSE <<(B16 - 1) - ((-n - 1) \div B16), (B16 - 1) - ((-n - 1) % B16)>>

\* Math.floor(rng() * n) = floor(u * n / 2^32) for a word u and an n of
\* either sign, |n| < 2^27, through 12-bit limbs of n (\div rounds down)
MulShift(u, n) ==
  LET c == n \div 4096
      d == n % 4096
  IN  (u[1] * c + ((u[1] * d + ((u[2] * c + ((u[2] * d) \div 4096)) \div 16)) \div 4096))
        \div 16

\* Math.round(n / d) for d > 0: the nearest integer, a half goes up
MathRound(n, d) == (2 * n + d) \div (2 * d)

\* (n / d).toFixed(0) for d > 0: the nearest integer, a half goes away from 0
ToFixed(n, d) ==
  IF n >= 0 THEN (2 * n + d) \div (2 * d) ELSE -((d - 2 * n) \div (2 * d))

\* Math.round(k * mult), k an integer and mult in hundredths.  Of the products
\* of an OFSTED_MULTIPLIER whose exact value is n + 0.5, the double of those
\* in belowHalf is the one just below n + 0.5, and Math.round gives n.
belowHalf == {<<50, 115>>, <<90, 115>>, <<110, 115>>, <<75, 82>>}
roundTimes(k, mult) ==
  IF <<k, mult>> \in belowHalf THEN (k * mult) \div 100 ELSE MathRound(k * mult, 100)

Min(a, b) == IF a < b THEN a ELSE b
Max(a, b) == IF a > b THEN a ELSE b

\* ------------------------------------------------------------------------
\* The seeded PRNG (mulberry32 as the repository writes it)
\* ------------------------------------------------------------------------
GOLDEN == <<27947, 31221>>      \* 0x6d2b79f5

\* let t = (seed | 0) + 0x6d2b79f5; the closure keeps t
seedRandom(seed) == [t |-> Add32(Word(seed), GOLDEN), stub |-> <<>>, k |-> 0]

\* the three statements of the closure, each from the t before it
mix3(rng, t) == [u |-> Xor32(t, Shr32(t, 14)), rng |-> [rng EXCEPT !.t = t]]
mix2(rng, t) == mix3(rng, Xor32(t, Add32(t, imul(Xor32(t, Shr32(t, 7)), Or61(t)))))
mix1(rng, t) == mix2(rng, imul(Xor32(t, Shr32(t, 15)), Or1(t)))

\* One call rng(): the closure after the call and the 32-bit numerator u of
\* the returned u / 4294967296.  A stub closure (stub # <<>>) stands for any
\* other function handed to a generator as its rng argument: it returns its
\* fixed numerators in turn.
RngCall(rng) ==
  IF rng.stub # <<>>
  THEN [u   |-> rng.stub[rng.k + 1],
        rng |-> [rng EXCEPT !.k = (rng.k + 1) % Len(rng.stub)]]
  ELSE mix1(rng, rng.t)

\* acc, a non-empty sequence of successive calls <<[u, rng], ...>>, and the
\* n calls that follow it
RECURSIVE More(_, _)
More(acc, n) ==
  IF Len(acc) > 0 /\ n <= 0 THEN acc
  ELSE More(Append(acc, RngCall(acc[Len(acc)].rng)), n - 1)

RECURSIVE MoreChunks(_, _)
MoreChunks(acc, n) ==
  IF Len(acc) > 0 /\ n <= 0 THEN acc
  ELSE MoreChunks(More(acc, Min(n, 32)), n - 32)

\* the first n calls of rng
Draws(rng, n) == IF n = 0 THEN <<>> ELSE MoreChunks(<<RngCall(rng)>>, n - 1)

\* the closure after the first n calls of d == Draws(rng, _)
After(rng, d, n) == IF n = 0 THEN rng ELSE d[n].rng

\* Math.floor(u/2^32 * (max - min + 1)) + min
seededInt(u, min, max) == MulShift(u, max - min + 1) + min

\* parseFloat((u/2^32 * (max - min) + min).toFixed(decimals)) in units of
\* 10^-decimals, for min and max given in units m times finer (m >= 1).
\* A value exactly halfway goes up.
seededFloat(u, min, max, m) ==
  (2 * min + MulShift(u, 2 * (max - min)) + m) \div (2 * m)

\* Math.floor(u/2^32 * arr.length) + 1, the 1-based index of arr[...]
seededPick(u, arr) == arr[MulShift(u, Len(arr)) + 1]

\* ------------------------------------------------------------------------
\* Strings of digits: a string is a tuple of one-character strings
\* ------------------------------------------------------------------------
DIGITS == <<"0", "1", "2", "3", "4", "5", "6", "7", "8", "9">>

DigitVal(c) == (CHOOSE i \in 1..10 : DIGITS[i] = c) - 1
IsDigit(c) == \E i \in 1..10 : DIGITS[i] = c

\* String(n) for an integer n >= 0
RECURSIVE Chars(_)
Chars(n) == IF n < 10 THEN <<DIGITS[n + 1]>> ELSE Chars(n \div 10) \o <<DIGITS[(n % 10) + 1]>>

RECURSIVE SkipSpace(_)
SkipSpace(s) == IF s # <<>> /\ Head(s) = " " THEN SkipSpace(Tail(s)) ELSE s

\* the value of the longest prefix of digits of s, acc so far
RECURSIVE DigitPrefix(_, _)
DigitPrefix(s, acc) ==
  IF s # <<>> /\ IsDigit(Head(s)) THEN DigitPrefix(Tail(s), acc * 10 + DigitVal(Head(s)))
  ELSE acc

\* parseInt(s): leading blanks are skipped, then an optional sign, then digits
\* up to the first other character; NaN when there is no digit there
parseInt(s) ==
  LET t == SkipSpace(s)
      signed == t # <<>> /\ Head(t) \in {"+", "-"}
      body == IF signed THEN Tail(t) ELSE t
      mag == DigitPrefix(body, 0)
  IN  IF body = <<>> \/ ~IsDigit(Head(body)) THEN [nan |-> TRUE, n |-> 0]
      ELSE [nan |-> FALSE, n |-> IF signed /\ Head(t) = "-" THEN -mag ELSE mag]

\* ------------------------------------------------------------------------
\* Covariate tables
\* ------------------------------------------------------------------------
\* extract.js
BOROUGH_TIER ==
  [b \in {"Kensington and Chelsea", "Westminster", "Richmond upon Thames",
          "City of London"} |-> 5] @@
  [b \in {"Camden", "Hammersmith and Fulham", "Kingston upon Thames",
          "Wandsworth", "Merton", "Barnet", "Bromley", "Sutton"} |-> 4] @@
  [b \in {"Harrow", "Hounslow", "Ealing", "Bexley", "Hillingdon", "Havering",
          "Redbridge", "Enfield", "Brent", "Greenwich", "Lewisham",
          "Southwark"} |-> 3] @@
  [b \in {"Lambeth", "Haringey", "Waltham Forest", "Croydon", "Islington",
          "Hackney", "Tower Hamlets"} |-> 2] @@
  [b \in {"Newham", "Barking and Dagenham"} |-> 1]

\* the later extract.js (part_004) adds the Kent districts
BOROUGH_TIER_Kent ==
  BOROUGH_TIER @@
  [b \in {"Sevenoaks"} |-> 5] @@
  [b \in {"Tunbridge Wells", "Tonbridge and Malling"} |-> 4] @@
  [b \in {"Kent", "Canterbury", "Maidstone", "Dartford", "Ashford"} |-> 3] @@
  [b \in {"Gravesham", "Dover", "Folkestone and Hythe", "Swale", "Thanet",
          "Medway"} |-> 2]

KENT_DISTRICTS ==
  {"Kent", "Ashford", "Canterbury", "Dartford", "Dover", "Folkestone and Hythe",
   "Gravesham", "Maidstone", "Medway", "Sevenoaks", "Swale", "Thanet",
   "Tonbridge and Malling", "Tunbridge Wells"}

\* the table without its entry for "N/A"
OFSTED_MULTIPLIER_rated ==
  [r \in {"Outstanding"} |-> 115] @@ [r \in {"Good"} |-> 100] @@
  [r \in {"Requires Improvement"} |-> 82] @@ [r \in {"Inadequate"} |-> 68]

\* hundredths
OFSTED_MULTIPLIER ==
  [r \in {"Outstanding"} |-> 115] @@ [r \in {"Good"} |-> 100] @@
  [r \in {"Requires Improvement"} |-> 82] @@ [r \in {"Inadequate"} |-> 68] @@
  [r \in {"N/A"} |-> 105]

\* The two extract.js files: v = "extract" is server/pipeline/extract.js,
\* v = "part_004" the later one with the Kent schools.
Versions == {"extract", "part_004"}

\* BOROUGH_TIER[school.borough] || 3
tierOf(v, school) ==
  LET tab == IF v = "part_004" THEN BOROUGH_TIER_Kent ELSE BOROUGH_TIER
  IN  IF school.borough \in DOMAIN tab THEN tab[school.borough] ELSE 3

\* OFSTED_MULTIPLIER[rating] || 1.0, hundredths
multOf(rating) ==
  IF rating \in DOMAIN OFSTED_MULTIPLIER THEN OFSTED_MULTIPLIER[rating] ELSE 100

\* school.urn || school.id, as it is printed
urnOrId(school) == IF school.urn # <<>> THEN school.urn ELSE Chars(school.id)

\* ------------------------------------------------------------------------
\* generateSyntheticOfsted
\* ------------------------------------------------------------------------
ratings == <<"Outstanding", "Good", "Requires Improvement", "Inadequate">>

\* ratings.indexOf(r)
ratingIndexOf(r) ==
  IF \E i \in 1..4 : ratings[i] = r THEN (CHOOSE i \in 1..4 : ratings[i] = r) - 1 ELSE -1

basePercent(u, min, max, mult) ==
  Min(100, Max(40, roundTimes(seededInt(u, min, max), mult)))

\* dates are <<year, month, day>>
ofstedFrom(school, rng, d) ==
  IF school.sector = "Private"
  THEN [val |-> [rating |-> "N/A", date |-> null, previousRating |-> null,
                 previousDate |-> null, report |-> null, parentView |-> null],
        rng |-> rng]
  ELSE
    LET currentRating == IF school.ofstedRating = "" THEN "Good" ELSE school.ofstedRating
        ratingIdx == ratingIndexOf(currentRating)
        prevIdx == IF ratingIdx = -1 THEN seededInt(d[1].u, 0, 1)
                   ELSE Max(0, Min(3, ratingIdx + seededPick(d[1].u, <<0, 0, 0, 1, -1>>)))
        lastYear == seededInt(d[2].u, 2020, 2024)
        mult == multOf(currentRating)
    IN  [val |->
           [rating |-> currentRating,
            date |-> <<lastYear, seededInt(d[3].u, 1, 12), seededInt(d[4].u, 1, 28)>>,
            previousRating |-> <<ratings[prevIdx + 1]>>,
            previousDate |-> <<lastYear - seededInt(d[5].u, 3, 5),
                               seededInt(d[6].u, 1, 12), seededInt(d[7].u, 1, 28)>>,
            report |-> urnOrId(school),
            parentView |->
              [recommend  |-> basePercent(d[8].u, 78, 98, mult),
               happy      |-> basePercent(d[9].u, 75, 96, mult),
               safe       |-> basePercent(d[10].u, 82, 99, mult),
               bullying   |-> basePercent(d[11].u, 70, 95, mult),
               behaviour  |-> basePercent(d[12].u, 74, 96, mult),
               progress   |-> basePercent(d[13].u, 72, 95, mult),
               teaching   |-> basePercent(d[14].u, 73, 96, mult),
               leadership |-> basePercent(d[15].u, 76, 97, mult)]],
        rng |-> d[15].rng]

generateSyntheticOfsted(school, rng) == ofstedFrom(school, rng, Draws(rng, 15))

\* ------------------------------------------------------------------------
\* generateSyntheticPerformance (server/pipeline/extract.js)
\* ------------------------------------------------------------------------
hasKs2(school) == school.phase \in {"Primary", "All-Through", "Special"}
hasKs4(school) == school.phase \in {"Secondary", "All-Through", "16 Plus"}
\* the ks5 test with school.hasSixthForm left out
hasKs5AnySchool(school) == school.phase \in {"Secondary", "All-Through", "16 Plus"}
hasKs5(school) == school.hasSixthForm /\ school.phase \in {"Secondary", "All-Through", "16 Plus"}

\* Math.min(100, Math.round((seededInt(rng, min, max) + tierBonus) * mult))
baseScore(u, min, max, tierBonus, mult) ==
  Min(100, roundTimes(seededInt(u, min, max) + tierBonus, mult))

\* the number of calls each block makes
ks2Calls(school) ==
  IF hasKs2(school) THEN (IF school.sector = "Private" THEN 7 ELSE 3) ELSE 0
ks4Calls(school) ==
  IF hasKs4(school) THEN (IF school.sector = "Private" THEN 10 ELSE 5) ELSE 0
ks5Calls(school) == IF hasKs5(school) THEN 2 ELSE 0

\* attainment8, ebacc_avg, averagePointScore in tenths; progress8 in hundredths
performanceFrom(school, rng, d) ==
  LET isPrivate == school.sector = "Private"
      tier == tierOf("extract", school)
      mult == multOf(school.ofstedRating)
      tierBonus == (tier - 1) * 2
      n2 == ks2Calls(school)
      n4 == ks4Calls(school)
      n5 == ks5Calls(school)
      U(i) == d[i].u
      baseReading == baseScore(U(1), 60, 85, tierBonus, mult)
      baseMaths == baseScore(U(2), 58, 84, tierBonus, mult)
      baseWriting == baseScore(U(3), 56, 82, tierBonus, mult)
      combined == Min(100, MathRound((baseReading + baseMaths + baseWriting) * 88, 300))
      ks2 ==
        IF ~hasKs2(school) THEN null
        ELSE IF isPrivate
        THEN [readingExpected |-> Min(100, baseReading + seededInt(U(4), 5, 15)),
              mathsExpected |-> Min(100, baseMaths + seededInt(U(5), 5, 15)),
              writingExpected |-> Min(100, baseWriting + seededInt(U(6), 5, 15)),
              combinedExpected |-> Min(100, combined + seededInt(U(7), 8, 18)),
              year |-> "2024"]
        ELSE [readingExpected |-> baseReading,
              mathsExpected |-> baseMaths,
              writingExpected |-> baseWriting,
              combinedExpected |-> combined,
              year |-> "2024"]
      baseA8 == seededFloat(U(n2 + 1), 380, 580, 1) + tierBonus * 12
      baseP8 == seededFloat(U(n2 + 2), -30, 60, 1)
      ebaccEntry == seededInt(U(n2 + 3), 20, 65) + tierBonus
      ebaccAvg == seededFloat(U(n2 + 4), 32, 58, 1)
      grade5 == seededInt(U(n2 + 5), 30, 65) + tierBonus
      ks4 ==
        IF ~hasKs4(school) THEN null
        ELSE IF isPrivate
        THEN [attainment8 |-> Min(900, seededFloat(U(n2 + 6), 550, 750, 1)),
              progress8 |-> seededFloat(U(n2 + 7), 10, 80, 1),
              ebacc_entry |-> Min(100, seededInt(U(n2 + 8), 60, 95)),
              ebacc_avg |-> seededFloat(U(n2 + 9), 55, 75, 1),
              grade5EnMa |-> Min(100, seededInt(U(n2 + 10), 65, 92)),
              year |-> "2024"]
        ELSE [attainment8 |-> ToFixed(Min(80000, baseA8 * mult), 100),
              progress8 |-> ToFixed(baseP8 * mult, 100),
              ebacc_entry |-> Min(100, roundTimes(ebaccEntry, mult)),
              ebacc_avg |-> ToFixed(Min(8000, ebaccAvg * mult), 100),
              grade5EnMa |-> Min(100, roundTimes(grade5, mult)),
              year |-> "2024"]
      k == n2 + n4
      baseAPS == seededFloat(U(k + 1), 280, 420, 1) + tierBonus * 5
      ks5 ==
        IF ~hasKs5(school) THEN null
        ELSE IF isPrivate
        THEN [averagePointScore |-> seededFloat(U(k + 1), 380, 480, 1),
              aabOrHigher |-> seededInt(U(k + 2), 25, 55),
              year |-> "2024"]
        ELSE [averagePointScore |-> ToFixed(Min(50000, baseAPS * mult), 100),
              aabOrHigher |-> Min(60, MathRound(seededInt(U(k + 2), 8, 30) * mult
                                                  + tierBonus * 100, 100)),
              year |-> "2024"]
  IN  IF school.phase \in {"Nursery", "Reception"}
      THEN [val |-> [ks2 |-> null, ks4 |-> null, ks5 |-> null], rng |-> rng]
      ELSE [val |-> [ks2 |-> ks2, ks4 |-> ks4, ks5 |-> ks5],
            rng |-> After(rng, d, n2 + n4 + n5)]

generateSyntheticPerformance(school, rng) ==
  performanceFrom(school, rng,
                  Draws(rng, ks2Calls(school) + ks4Calls(school) + ks5Calls(school)))

\* ------------------------------------------------------------------------
\* generateSyntheticPerformance (part_004)
\* ------------------------------------------------------------------------
\* the seededInt ranges of subjectScores, in the order of its keys: english,
\* maths, science, history, geography, modernLanguages, art, music, pe,
\* computing, drama, dt
GCSE_RANGES ==
  <<<<45, 75>>, <<42, 72>>, <<40, 70>>, <<48, 78>>, <<46, 76>>, <<35, 68>>,
    <<50, 80>>, <<52, 82>>, <<55, 85>>, <<38, 68>>, <<50, 80>>, <<45, 75>>>>

\* the seededFloat ranges of aLevelSubjects in tenths, in the order of its
\* keys: maths, furtherMaths, english, physics, chemistry, biology, history,
\* geography, economics, psychology, art, modernLanguages, computerScience
ALEVEL_RANGES ==
  <<<<35, 55>>, <<40, 58>>, <<32, 52>>, <<34, 54>>, <<33, 53>>, <<35, 55>>,
    <<34, 54>>, <<35, 55>>, <<36, 56>>, <<33, 53>>, <<38, 56>>, <<32, 52>>,
    <<33, 53>>>>

\* progress scores, attainment8, ebacc_avg, averagePointScore and the A-level
\* grades in tenths; progress8 in hundredths
ks2Calls_p4(school) ==
  IF hasKs2(school) THEN (IF school.sector = "Private" THEN 21 ELSE 10) ELSE 0
ks4Calls_p4(school) ==
  IF hasKs4(school) THEN (IF school.sector = "Private" THEN 34 ELSE 17) ELSE 0
ks5Calls_p4(school) ==
  IF hasKs5(school) THEN (IF school.sector = "Private" THEN 38 ELSE 22) ELSE 0

performanceFrom_p4(school, rng, d) ==
  LET isPrivate == school.sector = "Private"
      tier == tierOf("part_004", school)
      mult == multOf(school.ofstedRating)
      tierBonus == (tier - 1) * 2
      n2 == ks2Calls_p4(school)
      n4 == ks4Calls_p4(school)
      n5 == ks5Calls_p4(school)
      U(i) == d[i].u
      baseReading == baseScore(U(1), 60, 85, tierBonus, mult)
      baseMaths == baseScore(U(2), 58, 84, tierBonus, mult)
      baseWriting == baseScore(U(3), 56, 82, tierBonus, mult)
      baseGPS == baseScore(U(4), 55, 80, tierBonus, mult)
      combined == Min(100, MathRound((baseReading + baseMaths + baseWriting) * 88, 300))
      readingProgress == seededFloat(U(5), -25, 35, 1)
      mathsProgress == seededFloat(U(6), -20, 38, 1)
      writingProgress == seededFloat(U(7), -22, 32, 1)
      readingHigher == Min(baseReading - 20, Max(5, seededInt(U(8), 15, 45)))
      mathsHigher == Min(baseMaths - 20, Max(5, seededInt(U(9), 12, 40)))
      writingHigher == Min(baseWriting - 25, Max(3, seededInt(U(10), 10, 35)))
      ks2 ==
        IF ~hasKs2(school) THEN null
        ELSE IF isPrivate
        THEN [readingExpected |-> Min(100, baseReading + seededInt(U(11), 5, 15)),
              mathsExpected |-> Min(100, baseMaths + seededInt(U(12), 5, 15)),
              writingExpected |-> Min(100, baseWriting + seededInt(U(13), 5, 15)),
              gpsExpected |-> Min(100, baseGPS + seededInt(U(14), 5, 15)),
              combinedExpected |-> Min(100, combined + seededInt(U(15), 8, 18)),
              readingProgress |-> readingProgress + seededFloat(U(16), 5, 15, 1),
              mathsProgress |-> mathsProgress + seededFloat(U(17), 5, 15, 1),
              writingProgress |-> writingProgress + seededFloat(U(18), 5, 15, 1),
              readingHigher |-> Min(70, readingHigher + seededInt(U(19), 10, 20)),
              mathsHigher |-> Min(65, mathsHigher + seededInt(U(20), 10, 20)),
              writingHigher |-> Min(55, writingHigher + seededInt(U(21), 8, 15)),
              year |-> "2024"]
        ELSE [readingExpected |-> baseReading,
              mathsExpected |-> baseMaths,
              writingExpected |-> baseWriting,
              gpsExpected |-> baseGPS,
              combinedExpected |-> combined,
              readingProgress |-> readingProgress,
              mathsProgress |-> mathsProgress,
              writingProgress |-> writingProgress,
              readingHigher |-> readingHigher,
              mathsHigher |-> mathsHigher,
              writingHigher |-> writingHigher,
              year |-> "2024"]
      baseA8 == seededFloat(U(n2 + 1), 380, 580, 1) + tierBonus * 12
      baseP8 == seededFloat(U(n2 + 2), -30, 60, 1)
      ebaccEntry == seededInt(U(n2 + 3), 20, 65) + tierBonus
      ebaccAvg == seededFloat(U(n2 + 4), 32, 58, 1)
      grade5 == seededInt(U(n2 + 5), 30, 65) + tierBonus
      subjectScores ==
        [i \in 1..12 |->
           baseScore(U(n2 + 5 + i), GCSE_RANGES[i][1], GCSE_RANGES[i][2], tierBonus, mult)]
      ks4 ==
        IF ~hasKs4(school) THEN null
        ELSE IF isPrivate
        THEN [attainment8 |-> Min(900, seededFloat(U(n2 + 30), 550, 750, 1)),
              progress8 |-> seededFloat(U(n2 + 31), 10, 80, 1),
              ebacc_entry |-> Min(100, seededInt(U(n2 + 32), 60, 95)),
              ebacc_avg |-> seededFloat(U(n2 + 33), 55, 75, 1),
              grade5EnMa |-> Min(100, seededInt(U(n2 + 34), 65, 92)),
              subjects |-> [i \in 1..12 |->
                              Min(100, subjectScores[i] + seededInt(U(n2 + 17 + i), 10, 20))],
              year |-> "2024"]
        ELSE [attainment8 |-> ToFixed(Min(80000, baseA8 * mult), 100),
              progress8 |-> ToFixed(baseP8 * mult, 100),
              ebacc_entry |-> Min(100, roundTimes(ebaccEntry, mult)),
              ebacc_avg |-> ToFixed(Min(8000, ebaccAvg * mult), 100),
              grade5EnMa |-> Min(100, roundTimes(grade5, mult)),
              subjects |-> subjectScores,
              year |-> "2024"]
      k == n2 + n4
      aLevelSubjects ==
        [i \in 1..13 |->
           ToFixed(Min(6000, (seededFloat(U(k + i), ALEVEL_RANGES[i][1],
                                          ALEVEL_RANGES[i][2], 1) + tierBonus) * mult), 100)]
      vocationalResults ==
        [btecDistinctionRate |-> seededInt(U(k + 14), 30, 70),
         vocationalEntries |-> seededInt(U(k + 15), 10, 60)]
      destinations ==
        [university |-> seededInt(U(k + 16), 40, 85),
         russellGroup |-> seededInt(U(k + 17), 5, 45),
         oxbridge |-> seededInt(U(k + 18), 0, 15),
         apprenticeship |-> seededInt(U(k + 19), 5, 25),
         employment |-> seededInt(U(k + 20), 5, 20)]
      baseAPS == seededFloat(U(k + 21), 280, 420, 1) + tierBonus * 5
      ks5 ==
        IF ~hasKs5(school) THEN null
        ELSE IF isPrivate
        THEN [averagePointScore |-> seededFloat(U(k + 37), 380, 480, 1),
              aabOrHigher |-> seededInt(U(k + 38), 25, 55),
              subjects |-> [i \in 1..13 |->
                              Min(60, aLevelSubjects[i] + seededFloat(U(k + 20 + i), 3, 8, 1))],
              vocational |-> vocationalResults,
              destinations |->
                [destinations EXCEPT
                   !.university = Min(98, @ + seededInt(U(k + 34), 10, 20)),
                   !.russellGroup = Min(80, @ + seededInt(U(k + 35), 15, 30)),
                   !.oxbridge = Min(40, @ + seededInt(U(k + 36), 5, 15))],
              year |-> "2024"]
        ELSE [averagePointScore |-> ToFixed(Min(50000, baseAPS * mult), 100),
              aabOrHigher |-> Min(60, MathRound(seededInt(U(k + 22), 8, 30) * mult
                                                  + tierBonus * 100, 100)),
              subjects |-> aLevelSubjects,
              vocational |-> vocationalResults,
              destinations |-> destinations,
              year |-> "2024"]
  IN  IF school.phase \in {"Nursery", "Reception"}
      THEN [val |-> [ks2 |-> null, ks4 |-> null, ks5 |-> null], rng |-> rng]
      ELSE [val |-> [ks2 |-> ks2, ks4 |-> ks4, ks5 |-> ks5],
            rng |-> After(rng, d, n2 + n4 + n5)]

generateSyntheticPerformance_p4(school, rng) ==
  performanceFrom_p4(school, rng,
                     Draws(rng, ks2Calls_p4(school) + ks4Calls_p4(school)
                                  + ks5Calls_p4(school)))

\* ------------------------------------------------------------------------
\* generateSyntheticAdmissions (server/pipeline/extract.js)
\* ------------------------------------------------------------------------
\* totalApps > intakePerYear * 1.1; both sides are integers times ten, and
\* the double 1.1 lies above 11/10 by less than any such difference
\* the comparison with the tolerance left out
exceedsIntake(totalApps, intakePerYear) == totalApps > intakePerYear
exceedsTolerance(totalApps, intakePerYear) == 10 * totalApps > 11 * intakePerYear

\* the Nursery branch; distances in thousandths of a km
nurseryAdmissions(pupils, d) ==
  LET capacity == Max(20, MathRound(pupils * seededFloat(d[1].u, 90, 110, 1), 100))
      totalApps == MathRound(capacity * seededFloat(d[2].u, 12, 25, 1), 10)
  IN  [val |-> [capacity |-> capacity,
                applications |-> [first |-> MathRound(totalApps * 55, 100),
                                  second |-> MathRound(totalApps * 28, 100),
                                  third |-> MathRound(totalApps * 17, 100),
                                  total |-> totalApps],
                offers |-> capacity,
                oversubscribed |-> totalApps > capacity,
                lastDistanceOffered |->
                  IF totalApps > capacity THEN <<10 * seededFloat(d[3].u, 30, 200, 1)>> ELSE null,
                year |-> "2024"],
        rng |-> IF totalApps > capacity THEN d[3].rng ELSE d[2].rng]

\* intakePerYear
intakeOf(school, pupils) ==
  Max(15,
      IF school.phase = "Primary" THEN MathRound(pupils, 7)
      ELSE IF school.phase = "Secondary"
           THEN MathRound(pupils, IF school.hasSixthForm THEN 7 ELSE 5)
      ELSE IF school.phase = "All-Through" THEN MathRound(pupils, 14)
      ELSE IF school.phase = "Reception" THEN MathRound(pupils, 7)
      ELSE MathRound(pupils, 5))

\* mult * (1 + (tier - 1) * 0.15), in ten-thousandths
demandMultiplier(mult, tier) == mult * (100 + (tier - 1) * 15)

\* the draws shared by both extract.js files after the Nursery branch:
\* totalApps, firstPref, secondPref, oversubscribed, lastDistance (thousandths
\* of a km) and n, the number of calls made
intakeDraws(school, d, intakePerYear, tier, mult) ==
  LET totalApps == MathRound(intakePerYear * seededFloat(d[1].u, 15, 40, 1)
                               * demandMultiplier(mult, tier), 100000)
      oversubscribed == exceedsTolerance(totalApps, intakePerYear)
  IN  [totalApps |-> totalApps,
       firstPref |-> MathRound(totalApps * seededFloat(d[2].u, 45, 60, 1), 100),
       secondPref |-> MathRound(totalApps * seededFloat(d[3].u, 20, 35, 1), 100),
       oversubscribed |-> oversubscribed,
       lastDistance |-> IF oversubscribed THEN <<10 * seededFloat(d[4].u, 30, 350, 1)>> ELSE null,
       n |-> IF oversubscribed THEN 4 ELSE 3]

admissionsFrom(school, rng, d) ==
  LET pupils == IF school.pupils = 0 THEN 200 ELSE school.pupils
      tier == tierOf("extract", school)
      mult == multOf(school.ofstedRating)
      intakePerYear == intakeOf(school, pupils)
      a == intakeDraws(school, d, intakePerYear, tier, mult)
  IN  IF school.phase = "Nursery" THEN nurseryAdmissions(pupils, d)
      ELSE [val |-> [capacity |-> intakePerYear,
                     applications |-> [first |-> a.firstPref,
                                       second |-> a.secondPref,
                                       third |-> Max(0, a.totalApps - a.firstPref - a.secondPref),
                                       total |-> a.totalApps],
                     offers |-> intakePerYear,
                     oversubscribed |-> a.oversubscribed,
                     lastDistanceOffered |-> a.lastDistance,
                     year |-> "2024"],
            rng |-> d[a.n].rng]

generateSyntheticAdmissions(school, rng) == admissionsFrom(school, rng, Draws(rng, 4))

\* ------------------------------------------------------------------------
\* generateSyntheticAdmissions and generateOpenDays (part_004)
\* ------------------------------------------------------------------------
\* KENT_DISTRICTS.some(d => borough.toLowerCase().includes(d.toLowerCase())),
\* for the borough names of the tables above (none contains another's name
\* except as itself)
isKentSchool(school) == school.borough \in KENT_DISTRICTS

\* effectiveCatchment in thousandths of a km, from lastDistance (<<thousandths>>
\* or null) and baseCatchmentKm (thousandths)
effectiveCatchment(oversubscribed, lastDistance, baseCatchmentKm) ==
  IF oversubscribed
  THEN Max(200, IF lastDistance # null /\ lastDistance[1] # 0 THEN lastDistance[1]
                ELSE (baseCatchmentKm * 4) \div 10)
  ELSE baseCatchmentKm

\* openDays from the calls d[k + 1], ...: <<day, month, hour>> each
generateOpenDays(d, k, phase) ==
  LET months == IF phase = "Primary" THEN <<"September", "October", "November">>
                ELSE <<"September", "October">>
      numDays == seededInt(d[k + 1].u, 1, 3)
  IN  [val |-> [i \in 1..numDays |->
                  LET hour == seededPick(d[k + 3 * i + 1].u, <<9, 10, 14, 18>>)
                  IN  [date |-> <<seededInt(d[k + 3 * i].u, 1, 28),
                                  seededPick(d[k + 3 * i - 1].u, months), 2024>>,
                       time |-> hour,
                       type |-> IF hour >= 17 THEN "Evening" ELSE "Daytime"]],
       n |-> 1 + 3 * numDays]

hasFaithCriterion(school) ==
  school.religiousCharacter # "" /\ school.religiousCharacter # "None"

admissionsFrom_p4(school, rng, d) ==
  LET pupils == IF school.pupils = 0 THEN 200 ELSE school.pupils
      tier == tierOf("part_004", school)
      mult == multOf(school.ofstedRating)
      intakePerYear == intakeOf(school, pupils)
      a == intakeDraws(school, d, intakePerYear, tier, mult)
      baseCatchmentKm ==
        IF isKentSchool(school) THEN 10 * seededFloat(d[a.n + 1].u, 200, 800, 1)
        ELSE 10 * seededFloat(d[a.n + 1].u, 50, 350, 1)
      eff == effectiveCatchment(a.oversubscribed, a.lastDistance, baseCatchmentKm)
      catchmentHistory ==
        [y2024 |-> IF a.lastDistance # null /\ a.lastDistance[1] # 0 THEN a.lastDistance[1] ELSE eff,
         y2023 |-> 10 * seededFloat(d[a.n + 2].u, eff * 85, eff * 115, 1000),
         y2022 |-> 10 * seededFloat(d[a.n + 3].u, eff * 80, eff * 120, 1000)]
      aptitudeDrawn == ~hasFaithCriterion(school) /\ school.phase = "Secondary"
      k == a.n + 3 + (IF aptitudeDrawn THEN 1 ELSE 0)
      admissionCriteria ==
        IF hasFaithCriterion(school)
        THEN <<[criterion |-> "Faith", priority |-> 1],
               [criterion |-> "Siblings", priority |-> 2],
               [criterion |-> "Distance", priority |-> 3]>>
        ELSE <<[criterion |-> "Looked After Children", priority |-> 1],
               [criterion |-> "Siblings", priority |-> 2],
               [criterion |-> "Distance", priority |-> 3]>>
             \o (IF aptitudeDrawn /\ MulShift(d[a.n + 4].u, 10) < 3
                 THEN <<[criterion |-> "Aptitude", priority |-> 2]>> ELSE <<>>)
      appealsLodged == IF a.oversubscribed THEN seededInt(d[k + 1].u, 5, 40)
                       ELSE seededInt(d[k + 1].u, 0, 5)
      openDays == generateOpenDays(d, k + 2, school.phase)
  IN  IF school.phase = "Nursery" THEN nurseryAdmissions(pupils, d)
      ELSE [val |-> [capacity |-> intakePerYear,
                     applications |-> [first |-> a.firstPref,
                                       second |-> a.secondPref,
                                       third |-> Max(0, a.totalApps - a.firstPref - a.secondPref),
                                       total |-> a.totalApps],
                     offers |-> intakePerYear,
                     oversubscribed |-> a.oversubscribed,
                     lastDistanceOffered |-> a.lastDistance,
                     catchment |-> [officialRadius |-> baseCatchmentKm,
                                    effectiveRadius |-> eff,
                                    history |-> catchmentHistory,
                                    unit |-> "km"],
                     criteria |-> admissionCriteria,
                     appeals |-> [lodged |-> appealsLodged,
                                  successful |->
                                    MathRound(appealsLodged
                                                * seededFloat(d[k + 2].u, 10, 35, 1), 100)],
                     openDays |-> openDays.val,
                     applicationDeadline |-> IF school.phase = "Primary" THEN "15 January 2025"
                                             ELSE "31 October 2024",
                     year |-> "2024"],
            rng |-> d[k + 2 + openDays.n].rng]

\* at most 4 + 3 + 1 + 2 + 10 calls
generateSyntheticAdmissions_p4(school, rng) ==
  admissionsFrom_p4(school, rng,
                    Draws(rng, IF school.phase = "Nursery" THEN 3 ELSE 20))

\* ------------------------------------------------------------------------
\* generateSyntheticDemographics
\* ------------------------------------------------------------------------
innerBoroughs ==
  {"Tower Hamlets", "Newham", "Hackney", "Brent", "Westminster",
   "Ealing", "Hounslow", "Haringey", "Lambeth", "Southwark"}
highDiversityBoroughs == {"Tower Hamlets", "Newham", "Brent", "Ealing", "Hounslow"}
lessDiverseBoroughs == {"Havering", "Bromley", "Bexley", "Richmond upon Thames", "Sutton"}

\* fsmPercent, ealPercent, senPercent and n, the number of calls made
pupilPercents(school, tier, d) ==
  LET isPrivate == school.sector = "Private"
      n == IF isPrivate THEN 0 ELSE 1
  IN  [fsmPercent |-> IF isPrivate THEN 0
                      ELSE IF school.phase = "Nursery" THEN seededInt(d[1].u, 5, 35)
                      ELSE Max(1, seededInt(d[1].u, 8, 50) - tier * 5),
       ealPercent |-> IF isPrivate THEN seededInt(d[n + 1].u, 10, 30)
                      ELSE IF school.borough \in innerBoroughs THEN seededInt(d[n + 1].u, 30, 70)
                      ELSE seededInt(d[n + 1].u, 8, 40),
       senPercent |-> IF school.phase = "Special" THEN seededInt(d[n + 2].u, 85, 100)
                      ELSE IF isPrivate THEN seededInt(d[n + 2].u, 3, 10)
                      ELSE seededInt(d[n + 2].u, 8, 22),
       n |-> n + 2]

\* the step with the Math.max(0, ...) left out
normalizeUnclamped(ethnicities) ==
  LET total == ethnicities.white + ethnicities.asian + ethnicities.black
                 + ethnicities.mixed + ethnicities.other
  IN  [ethnicities EXCEPT !.other = ethnicities.other + (100 - total)]

\* the "Normalize to 100%" step
normalize(ethnicities) ==
  LET total == ethnicities.white + ethnicities.asian + ethnicities.black
                 + ethnicities.mixed + ethnicities.other
  IN  IF total # 100
      THEN [ethnicities EXCEPT !.other = Max(0, ethnicities.other + (100 - total))]
      ELSE ethnicities

\* the three borough branches of extract.js, from the calls d[k + 1 .. k + 4]
londonEthnicities(school, d, k) ==
  IF school.borough \in highDiversityBoroughs
  THEN LET asian == seededInt(d[k + 1].u, 25, 50)
           black == seededInt(d[k + 2].u, 10, 25)
           white == seededInt(d[k + 3].u, 15, 30)
           mixed == seededInt(d[k + 4].u, 5, 15)
       IN  [white |-> Max(5, white), asian |-> asian, black |-> black, mixed |-> mixed,
            other |-> Max(2, 100 - asian - black - white - mixed)]
  ELSE IF school.borough \in lessDiverseBoroughs
  THEN LET white == seededInt(d[k + 1].u, 55, 75)
           asian == seededInt(d[k + 2].u, 5, 15)
           black == seededInt(d[k + 3].u, 5, 15)
           mixed == seededInt(d[k + 4].u, 5, 10)
       IN  [white |-> white, asian |-> asian, black |-> black, mixed |-> mixed,
            other |-> Max(1, 100 - white - asian - black - mixed)]
  ELSE LET white == seededInt(d[k + 1].u, 25, 50)
           asian == seededInt(d[k + 2].u, 12, 30)
           black == seededInt(d[k + 3].u, 12, 30)
           mixed == seededInt(d[k + 4].u, 5, 15)
       IN  [white |-> white, asian |-> asian, black |-> black, mixed |-> mixed,
            other |-> Max(2, 100 - white - asian - black - mixed)]

demographicsFrom(school, rng, d) ==
  LET p == pupilPercents(school, tierOf("extract", school), d)
  IN  [val |-> [fsmPercent |-> p.fsmPercent, ealPercent |-> p.ealPercent,
                senPercent |-> p.senPercent,
                ethnicities |-> normalize(londonEthnicities(school, d, p.n))],
       rng |-> d[p.n + 4].rng]

generateSyntheticDemographics(school, rng) ==
  demographicsFrom(school, rng, Draws(rng, IF school.sector = "Private" THEN 6 ELSE 7))

\* part_004: the Kent branch comes first
demographicsFrom_p4(school, rng, d) ==
  LET p == pupilPercents(school, tierOf("part_004", school), d)
      white == seededInt(d[p.n + 1].u, 70, 88)
      asian == seededInt(d[p.n + 2].u, 3, 12)
      black == seededInt(d[p.n + 3].u, 2, 8)
      mixed == seededInt(d[p.n + 4].u, 3, 8)
      ethnicities ==
        IF isKentSchool(school)
        THEN [white |-> white, asian |-> asian, black |-> black, mixed |-> mixed,
              other |-> Max(1, 100 - white - asian - black - mixed)]
        ELSE londonEthnicities(school, d, p.n)
  IN  [val |-> [fsmPercent |-> p.fsmPercent, ealPercent |-> p.ealPercent,
                senPercent |-> p.senPercent, ethnicities |-> normalize(ethnicities)],
       rng |-> d[p.n + 4].rng]

generateSyntheticDemographics_p4(school, rng) ==
  demographicsFrom_p4(school, rng, Draws(rng, IF school.sector = "Private" THEN 6 ELSE 7))

\* ------------------------------------------------------------------------
\* generateSyntheticContact
\* ------------------------------------------------------------------------
titles == <<"Mr", "Mrs", "Ms", "Dr">>
firstNames ==
  <<"James", "Sarah", "David", "Emma", "Michael", "Rachel", "Andrew", "Helen",
    "Richard", "Catherine", "Robert", "Jane", "Christopher", "Amanda", "Paul",
    "Rebecca", "Simon", "Louise", "Mark", "Claire", "Stephen", "Nicola",
    "Jonathan", "Elizabeth", "Peter", "Susan", "Daniel", "Karen", "Matthew", "Fiona">>
lastNames ==
  <<"Smith", "Johnson", "Williams", "Brown", "Taylor", "Davies", "Wilson",
    "Evans", "Thomas", "Roberts", "Walker", "Wright", "Robinson", "Thompson",
    "White", "Hughes", "Edwards", "Green", "Hall", "Lewis", "Harris", "Clarke",
    "Patel", "Jackson", "Wood", "Turner", "Martin", "Cooper", "Hill", "Ward",
    "Khan", "Ali", "Kumar", "Singh", "Okonkwo", "Adeyemi", "Chen", "Wang">>

\* phone is <<areaCode, digits, digits>>, email <<"info", name, borough,
\* domain>> (the slugs of name and borough are functions of the two alone),
\* headteacher <<title, firstName, lastName>>
contactFrom(school, rng, d) ==
  LET isPrivate == school.sector = "Private"
      n == IF isPrivate THEN 4 ELSE 3
      domain == IF isPrivate THEN seededPick(d[4].u, <<"org.uk", "co.uk">>) ELSE "sch.uk"
  IN  [val |-> [phone |-> <<seededPick(d[1].u, <<"020 7", "020 8", "020 3">>),
                           seededInt(d[2].u, 1000, 9999), seededInt(d[3].u, 1000, 9999)>>,
                email |-> <<"info", school.name, school.borough, domain>>,
                headteacher |-> <<seededPick(d[n + 1].u, titles),
                                  seededPick(d[n + 2].u, firstNames),
                                  seededPick(d[n + 3].u, lastNames)>>],
       rng |-> d[n + 3].rng]

generateSyntheticContact(school, rng) ==
  contactFrom(school, rng, Draws(rng, IF school.sector = "Private" THEN 7 ELSE 6))

\* ------------------------------------------------------------------------
\* generateSyntheticFinances
\* ------------------------------------------------------------------------
\* pupilTeacherRatio in tenths
financesFrom(school, rng, d) ==
  LET isPrivate == school.sector = "Private"
      pupils == IF school.pupils = 0 THEN 100 ELSE school.pupils
      phase == school.phase
      tier == tierOf("extract", school)
      perPupil == IF isPrivate THEN seededInt(d[1].u, 8000, 15000)
                  ELSE seededInt(d[1].u, 5000, 8000)
      staffCount == Max(5, MathRound(pupils * 10, seededFloat(d[2].u, 30, 50, 1)))
      perPupilBase ==
        IF isPrivate THEN seededInt(d[1].u, 14000, 28000) + tier * 1500
        ELSE IF phase = "Special" THEN seededInt(d[1].u, 18000, 35000)
        ELSE IF phase = "Primary" THEN seededInt(d[1].u, 5200, 7800) + tier * 200
        ELSE seededInt(d[1].u, 6000, 9500) + tier * 300
      pupilTeacherRatioBase ==
        IF isPrivate THEN seededFloat(d[2].u, 80, 130, 1)
        ELSE IF phase = "Special" THEN seededFloat(d[2].u, 40, 80, 1)
        ELSE IF phase = "Primary" THEN seededFloat(d[2].u, 180, 270, 1)
        ELSE seededFloat(d[2].u, 140, 190, 1)
      teacherCount == Max(5, MathRound(pupils * 10, pupilTeacherRatioBase))
  IN  [val |-> IF phase = "Nursery"
               THEN [totalIncome |-> perPupil * pupils,
                     perPupilFunding |-> perPupil,
                     teacherCount |-> staffCount,
                     pupilTeacherRatio |-> ToFixed(pupils * 10, staffCount)]
               ELSE [totalIncome |-> perPupilBase * pupils,
                     perPupilFunding |-> perPupilBase,
                     teacherCount |-> teacherCount,
                     pupilTeacherRatio |-> ToFixed(pupils * 10, teacherCount)],
       rng |-> d[2].rng]

generateSyntheticFinances(school, rng) == financesFrom(school, rng, Draws(rng, 2))

\* ------------------------------------------------------------------------
\* School records
\* ------------------------------------------------------------------------
\* A school record: urn is a string ("" when the record has none), id and
\* pupils are integers (0 when missing), the other fields are strings ("" when
\* missing) and hasSixthForm is a boolean.
School(id, urn, borough, phase, sector, ofstedRating, pupils, hasSixthForm, website, religiousCharacter, fundingType) ==
  [id |-> id, urn |-> urn, name |-> <<"School">> \o Chars(id), borough |-> borough,
   phase |-> phase, sector |-> sector, ofstedRating |-> ofstedRating,
   pupils |-> pupils, hasSixthForm |-> hasSixthForm, website |-> website,
   religiousCharacter |-> religiousCharacter, fundingType |-> fundingType,
   region |-> IF borough \in KENT_DISTRICTS THEN "Kent" ELSE "London"]

SCHOOLS ==
  <<School(1, Chars(100005), "Newham", "Primary", "State", "Good", 450, FALSE,
           "", "None", "Community"),
    School(2, Chars(100000), "Camden", "Nursery", "State", "Outstanding", 60, FALSE,
           "", "", "Community"),
    School(3, Chars(100006), "Camden", "Secondary", "State", "Good", 1200, TRUE,
           "https://www.school3.example", "None", "Academy"),
    School(4, Chars(100010), "Kensington and Chelsea", "All-Through", "Private", "", 800, TRUE,
           "", "None", "Independent"),
    School(5, Chars(100047), "Bromley", "Special", "State", "Requires Improvement", 90, FALSE,
           "", "None", "Community"),
    School(6, Chars(100019), "Lambeth", "16 Plus", "State", "Inadequate", 0, TRUE,
           "school6.example", "None", "Academy"),
    School(7, Chars(118000), "Maidstone", "Secondary", "State", "Good", 1050, TRUE,
           "", "None", "Grammar"),
    School(8, <<>>, "Tower Hamlets", "Primary", "State", "Good", 210, FALSE,
           "", "Church of England", "Voluntary Aided"),
    School(9, <<"A", "B", "C", "1", "2", "3">>, "Newham", "Secondary", "State", "Inadequate",
           900, FALSE, "", "None", "Academy"),
    School(10, <<"0">>, "Richmond upon Thames", "Primary", "State", "Outstanding", 3, FALSE,
           "", "None", "Community"),
    School(11, <<"1", "2", "A">>, "Westminster", "Nursery", "Private", "", 40, FALSE,
           "", "None", "Independent"),
    School(0, <<" ", "-", "7">>, "Bexley", "Other", "State", "Serious Weaknesses", 300, FALSE,
           "http://school12.example", "Roman Catholic", "Voluntary Aided")>>

NumSchools == 10

\* the largest index of a row in the export
MaxIdx == 1
Schools == {SCHOOLS[i] : i \in 1..NumSchools}

\* ------------------------------------------------------------------------
\* export.js: the generators of the database export.  Each one seeds a
\* generator of its own from the row's urn.
\* ------------------------------------------------------------------------
BOROUGH_TIER_export ==
  [b \in {"Westminster", "Kensington and Chelsea", "Camden", "Richmond upon Thames",
          "City of London", "Sevenoaks"} |-> 1] @@
  [b \in {"Wandsworth", "Hammersmith and Fulham", "Islington", "Southwark", "Lambeth",
          "Barnet", "Bromley", "Kingston upon Thames", "Merton", "Sutton",
          "Tonbridge and Malling", "Tunbridge Wells", "Canterbury"} |-> 2] @@
  [b \in {"Greenwich", "Lewisham", "Hackney", "Tower Hamlets", "Newham", "Brent",
          "Ealing", "Haringey", "Hounslow", "Enfield", "Redbridge", "Waltham Forest",
          "Croydon", "Harrow", "Hillingdon", "Bexley", "Havering", "Maidstone",
          "Dartford", "Gravesham", "Medway", "Dover", "Folkestone and Hythe",
          "Ashford", "Swale", "Kent"} |-> 3] @@
  [b \in {"Barking and Dagenham", "Thanet"} |-> 4]

\* BOROUGH_TIER[school.borough] || 3
tierOf_export(school) ==
  IF school.borough \in DOMAIN BOROUGH_TIER_export
  THEN BOROUGH_TIER_export[school.borough] ELSE 3

\* parseInt(school.urn) || 100000
urnSeed(school) ==
  LET p == parseInt(school.urn)
  IN  IF ~p.nan /\ p.n # 0 THEN p.n ELSE 100000

\* seededInt for a min and a max that are not whole: both in units of 1/s,
\* and so is the result, s * Math.floor(u/2^32 * (max - min + 1)) + min
seededIntOver(u, min, max, s) == s * (MulShift(u, max - min + s) \div s) + min

\* the bounds of the subject grades (tenths)
GCSE_RANGES_export ==
  <<<<40, 75>>, <<40, 75>>, <<40, 70>>, <<40, 70>>, <<40, 70>>, <<35, 70>>,
    <<45, 75>>, <<45, 75>>, <<50, 75>>, <<40, 70>>, <<45, 75>>, <<40, 70>>>>
ALEVEL_RANGES_export ==
  <<<<250, 450>>, <<280, 480>>, <<250, 420>>, <<250, 450>>, <<250, 450>>,
    <<250, 450>>, <<250, 420>>, <<250, 420>>, <<280, 450>>, <<250, 420>>,
    <<280, 450>>, <<250, 420>>, <<250, 450>>>>

\* A key the code does not set is undefined.  progress, attainment8,
\* progress8, ebaccAvg, avgPointScore and the subjects are in tenths;
\* grade5EnMa and aabOrHigher in halves and russellGroup in sixths, for
\* boost / 2 and boost / 3 are not whole.
performanceDataFrom(school, d) ==
  LET tier == tierOf_export(school)
      isPrivate == school.sector = "Private"
      isGrammar == school.fundingType = "Grammar"
      isOutstanding == school.ofstedRating = "Outstanding"
      boost == (IF isPrivate THEN 15 ELSE 0) + (IF isGrammar THEN 12 ELSE 0)
               + (IF isOutstanding THEN 5 ELSE 0)
      tierBoost == (4 - tier) * 5
      base == 60 + tierBoost + boost
      baseA8 == 40 + tierBoost + boost
      baseP8 == tierBoost + boost   \* thirtieths
      baseAPS == 60 + 2 * tierBoost + boost   \* halves
      U(i) == d[i].u
      ks2 ==
        [reading |-> [expected |-> Min(95, seededInt(U(1), base, base + 20)),
                      greaterDepth |-> seededInt(U(2), 15, 40)],
         writing |-> [expected |-> Min(95, seededInt(U(3), base - 5, base + 15)),
                      greaterDepth |-> seededInt(U(4), 10, 35)],
         maths |-> [expected |-> Min(95, seededInt(U(5), base, base + 20)),
                    greaterDepth |-> seededInt(U(6), 15, 40)],
         gps |-> [expected |-> Min(95, seededInt(U(7), base, base + 20))],
         combined |-> Min(90, seededInt(U(8), base - 10, base + 10)),
         progress |-> [reading |-> seededFloat(U(9), -15, 30, 1),
                       writing |-> seededFloat(U(10), -15, 30, 1),
                       maths |-> seededFloat(U(11), -15, 30, 1)]]
      ks4 ==
        [attainment8 |-> seededFloat(U(1), baseA8 * 10, Min(800, baseA8 * 10 + 150), 1),
         progress8 |-> seededFloat(U(2), baseP8 - 15, Min(45, baseP8 + 15), 3),
         ebaccEntry |-> seededInt(U(3), 20 + tierBoost, Min(95, 50 + tierBoost + boost)),
         ebaccAvg |-> seededFloat(U(4), 350 + 10 * tierBoost,
                                  Min(750, 500 + 10 * tierBoost + 10 * boost), 10),
         grade5EnMa |-> seededIntOver(U(5), 60 + 2 * tierBoost + boost,
                                      Min(190, 120 + 2 * tierBoost + 2 * boost), 2),
         subjects |-> [i \in 1..12 |->
                         seededFloat(U(5 + i), GCSE_RANGES_export[i][1],
                                     GCSE_RANGES_export[i][2], 1)]]
      ks5 ==
        [avgPointScore |-> seededFloat(U(18), baseAPS * 10, Min(1000, baseAPS * 10 + 200), 2),
         aabOrHigher |-> seededIntOver(U(19), 20 + 2 * tierBoost + boost,
                                       Min(160, 60 + 2 * tierBoost + 2 * boost), 2),
         subjects |-> [i \in 1..13 |->
                         seededFloat(U(19 + i), ALEVEL_RANGES_export[i][1],
                                     ALEVEL_RANGES_export[i][2], 1)],
         destinations |->
           [university |-> seededIntOver(U(33), 100 + 2 * tierBoost,
                                         Min(196, 150 + 2 * tierBoost + boost), 2) \div 2,
            russellGroup |-> seededIntOver(U(34), 60 + 6 * tierBoost + 2 * boost,
                                           Min(480, 180 + 6 * tierBoost + 3 * boost), 6),
            oxbridge |-> IF isGrammar \/ isPrivate THEN seededInt(U(35), 5, 25)
                         ELSE seededInt(U(35), 0, 8),
            apprenticeships |-> seededInt(U(36), 5, 20),
            employment |-> seededInt(U(37), 2, 15)]]
  IN  IF school.phase = "Primary"
      THEN [year |-> "2023", ks2 |-> ks2, ks4 |-> undefined, ks5 |-> undefined]
      ELSE IF school.phase \in {"Secondary", "All-Through"}
      THEN [year |-> "2023", ks2 |-> undefined, ks4 |-> ks4,
            ks5 |-> IF school.hasSixthForm THEN ks5 ELSE undefined]
      ELSE [year |-> "2023", ks2 |-> undefined, ks4 |-> undefined, ks5 |-> undefined]

generatePerformanceData(school) ==
  performanceDataFrom(school, Draws(seedRandom(urnSeed(school)), 37))

\* const criteria, after the two splices: Faith is put in at index 2 with
\* priority 3 and the entry behind it set to 4; Aptitude is put in at index 1
\* and every priority set to the place of its entry
criteriaOf(school) ==
  LET base == <<[priority |-> 1, category |-> "Looked After Children"],
                [priority |-> 2, category |-> "Siblings"],
                [priority |-> 3, category |-> "Distance"]>>
      faith == school.religiousCharacter # "" /\ school.religiousCharacter # "None"
      withFaith ==
        IF faith
        THEN [SubSeq(base, 1, 2) \o <<[priority |-> 3, category |-> "Faith"]>> \o SubSeq(base, 3, 3)
                EXCEPT ![4].priority = 4]
        ELSE base
      withAptitude ==
        SubSeq(withFaith, 1, 1) \o <<[priority |-> 2, category |-> "Aptitude"]>>
          \o SubSeq(withFaith, 2, Len(withFaith))
  IN  IF school.fundingType = "Grammar"
      THEN [i \in 1..Len(withAptitude) |-> [withAptitude[i] EXCEPT !.priority = i]]
      ELSE withFaith

\* officialRadius, effectiveRadius and lastDistanceOffered in hundredths of
\* a km, history[..].lastDistance in thousandths
admissionsDataFrom(school, d) ==
  LET isPopular == school.ofstedRating = "Outstanding" \/ school.fundingType = "Grammar"
      capacity == IF school.pupils = 0 THEN 200 ELSE school.pupils
      demandMult == IF isPopular THEN seededFloat(d[1].u, 25, 50, 1)
                    ELSE seededFloat(d[1].u, 12, 25, 1)
      applicationsTotal == MathRound(capacity * demandMult, 10)
      officialRadius == IF school.phase = "Primary" THEN seededFloat(d[2].u, 64, 120, 1)
                        ELSE seededFloat(d[2].u, 200, 375, 1)
      effectiveRadius ==
        IF isPopular THEN seededFloat(d[3].u, 3 * officialRadius, 7 * officialRadius, 10)
        ELSE seededFloat(d[3].u, 6 * officialRadius, 10 * officialRadius, 10)
      months == <<"September", "October", "November">>
  IN  [year |-> "2023",
       capacity |-> capacity,
       applications |->
         [total |-> applicationsTotal,
          first |-> MathRound(applicationsTotal * seededFloat(d[19].u, 50, 70, 10), 10),
          second |-> MathRound(applicationsTotal * seededFloat(d[20].u, 15, 25, 10), 10),
          third |-> MathRound(applicationsTotal * seededFloat(d[21].u, 10, 15, 10), 10)],
       oversubscribed |-> applicationsTotal > capacity,
       lastDistanceOffered |-> effectiveRadius,
       catchment |->
         [officialRadius |-> officialRadius,
          effectiveRadius |-> effectiveRadius,
          history |->
            [i \in 1..3 |->
               [year |-> 2020 + i,
                lastDistance |-> seededFloat(d[2 + 2 * i].u, 8 * effectiveRadius,
                                             12 * effectiveRadius, 1),
                offers |-> MathRound(capacity * seededFloat(d[3 + 2 * i].u, 95, 105, 10),
                                     10)]]],
       criteria |-> criteriaOf(school),
       appeals |-> [lodged |-> IF isPopular THEN seededInt(d[22].u, 20, 80)
                               ELSE seededInt(d[22].u, 5, 25),
                    successful |-> seededInt(d[23].u, 0, 10)],
       openDays |->
         [i \in 1..3 |->
            [date |-> <<seededInt(d[7 + 3 * i].u, 5, 25), months[i], 2024>>,
             time |-> seededPick(d[8 + 3 * i].u, <<"9:30am", "10:00am", "2:00pm", "6:00pm">>),
             type |-> seededPick(d[9 + 3 * i].u, <<"Open Morning", "Open Evening", "Tour">>)]],
       applicationDeadline |-> IF school.phase = "Secondary" THEN "31 October 2024"
                               ELSE "15 January 2025"]

generateAdmissionsData(school) ==
  admissionsDataFrom(school, Draws(seedRandom(urnSeed(school)), 23))

\* fsmPercent, ealPercent and senPercent in tenths
demographicsDataFrom(school, d) ==
  LET tier == tierOf_export(school)
      baseFsm == IF tier = 1 THEN 8 ELSE IF tier = 2 THEN 15 ELSE IF tier = 3 THEN 25 ELSE 35
  IN  [fsmPercent |-> seededFloat(d[1].u, (baseFsm - 5) * 10, (baseFsm + 10) * 10, 1),
       ealPercent |-> seededFloat(d[2].u, 150, 600, 1),
       senPercent |-> seededFloat(d[3].u, 80, 200, 1),
       ethnicities |-> [whitebritish |-> seededInt(d[4].u, 30, 70),
                        asian |-> seededInt(d[5].u, 5, 30),
                        black |-> seededInt(d[6].u, 5, 25),
                        mixed |-> seededInt(d[7].u, 5, 15),
                        other |-> seededInt(d[8].u, 2, 10)]]

generateDemographicsData(school) ==
  demographicsDataFrom(school, Draws(seedRandom(urnSeed(school)), 8))

\* dates are <<year, month, day>>
ofstedDataFrom(school, d) ==
  LET currentRating == IF school.ofstedRating = "" THEN "Good" ELSE school.ofstedRating
      prevIdx == IF ratingIndexOf(currentRating) = -1 THEN 1 ELSE ratingIndexOf(currentRating)
      year == seededInt(d[2].u, 2019, 2023)
  IN  [rating |-> currentRating,
       inspectionDate |-> <<year, seededInt(d[3].u, 1, 12), seededInt(d[4].u, 1, 28)>>,
       previousRating |-> seededPick(d[1].u, <<ratings[Max(0, prevIdx - 1) + 1],
                                               ratings[prevIdx + 1],
                                               ratings[Min(3, prevIdx + 1) + 1]>>),
       previousDate |-> <<year - seededInt(d[5].u, 2, 5), seededInt(d[6].u, 1, 12),
                          seededInt(d[7].u, 1, 28)>>,
       reportUrl |-> school.urn,
       parentView |-> [recommend |-> seededInt(d[8].u, 70, 98),
                       happy |-> seededInt(d[9].u, 75, 98),
                       safe |-> seededInt(d[10].u, 85, 100),
                       wellBehaved |-> seededInt(d[11].u, 70, 95),
                       bullying |-> seededInt(d[12].u, 60, 90)]]

generateOfstedData(school) ==
  ofstedDataFrom(school, Draws(seedRandom(urnSeed(school)), 12))

\* school.website.replace("https://www.", "").replace("http://", "")
stripScheme(url) ==
  IF url = "https://www.school3.example" THEN "school3.example"
  ELSE IF url = "http://school12.example" THEN "school12.example"
  ELSE url

firstNames_export ==
  <<"Sarah", "John", "Emma", "Michael", "Rachel", "David", "Claire", "James", "Helen",
    "Richard">>
lastNames_export ==
  <<"Smith", "Johnson", "Williams", "Brown", "Jones", "Taylor", "Davies", "Wilson",
    "Evans", "Thomas">>

\* phone is <<area code, three digits, four digits>>, email <<"office@", domain>>
\* with the domain of a school without a website <<its name in lower case
\* letters and digits, ".sch.uk">>, headteacher <<title, first name, last name>>
contactDataFrom(school, d) ==
  [phone |-> <<IF school.region = "Kent" THEN "01622" ELSE "020",
               seededInt(d[3].u, 100, 999), seededInt(d[4].u, 1000, 9999)>>,
   email |-> <<"office@",
               IF school.website # "" THEN <<stripScheme(school.website)>>
               ELSE <<<<"school">> \o Tail(school.name), ".sch.uk">> >>,
   headteacher |-> <<seededPick(d[5].u, titles),
                     seededPick(d[1].u, firstNames_export),
                     seededPick(d[2].u, lastNames_export)>>]

generateContactData(school) ==
  contactDataFrom(school, Draws(seedRandom(urnSeed(school)), 5))

\* pupilTeacherRatio in tenths
financeDataFrom(school, d) ==
  LET tier == tierOf_export(school)
      baseFunding == IF school.phase = "Primary" THEN 4500 ELSE 5500
      tierAdjustment == (4 - tier) * 200
      perPupilFunding == baseFunding + tierAdjustment + seededInt(d[1].u, -300, 500)
      pupils == IF school.pupils = 0 THEN 500 ELSE school.pupils
      ratio == IF school.phase = "Primary" THEN seededFloat(d[2].u, 180, 260, 1)
               ELSE seededFloat(d[2].u, 140, 200, 1)
  IN  [totalIncome |-> pupils * perPupilFunding,
       perPupilFunding |-> perPupilFunding,
       teacherCount |-> MathRound(pupils * 10, ratio),
       pupilTeacherRatio |-> ratio]

generateFinanceData(school) ==
  financeDataFrom(school, Draws(seedRandom(urnSeed(school)), 2))

\* ------------------------------------------------------------------------
\* The rng arguments of a direct call of a generator
\* ------------------------------------------------------------------------
stubRng(pattern) == [t |-> <<0, 0>>, stub |-> pattern, k |-> 0]

\* rng() = 1 / 2^32 and rng() = (2^32 - 1) / 2^32
LO == <<0, 1>>
HI == <<B16 - 1, B16 - 1>>

RngArgs ==
  {stubRng(<<LO>>), stubRng(<<HI>>), stubRng(<<LO, HI>>), stubRng(<<HI, LO>>),
   seedRandom(1)}

\* ------------------------------------------------------------------------
\* enrichSchool
\* ------------------------------------------------------------------------
Modes == {"quick", "enrich", "full"}

\* parseInt(school.urn) || school.id || 1
seedOf(school) ==
  LET p == parseInt(school.urn)
  IN  IF ~p.nan /\ p.n # 0 THEN p.n
      ELSE IF school.id # 0 THEN school.id
      ELSE 1

\* the sub-records of { ...school } before any is assigned
Blank ==
  [ofsted |-> undefined, performance |-> undefined, contact |-> undefined,
   admissions |-> undefined, demographics |-> undefined, finances |-> undefined,
   dataSources |-> undefined]

\* what fetchOfstedData resolves to when the page has a rating
RealOfsted(school) ==
  {[rating |-> "Good", date |-> <<12, "March", 2023>>, report |-> urnOrId(school)],
   [rating |-> "Inadequate", date |-> null, report |-> urnOrId(school)]}

\* what scrapeSchoolWebsite resolves to when the page has a match
Scraped ==
  {[phone |-> <<"020 7946 0000">>, email |-> null, headteacher |-> null],
   [phone |-> null, email |-> <<"office@school.example">>,
    headteacher |-> <<"Jane Smith">>]}

\* url.startsWith("http")
startsWithHttp(url) ==
  url \in {"https://www.school3.example", "http://school12.example",
           "https://www.tunbridgewellsgrammarscho.kent.sch.uk",
           "https://www.cliffewoodsprimaryschool.kent.sch.uk"}

\* the services a run asks for real data
Services == {"ofsted", "performance", "website"}

\* how a request can end without data: fetchUrl rejects on a timeout and on a
\* status other than 200, or it resolves to a body that holds nothing the
\* fetcher looks for (no match in the page, not JSON)
Failures == {"timeout", "status", "unparsed"}

\* how a request to a service can end, world telling what each service does
outcomes(world, service) ==
  IF world[service] = "any" THEN Failures \cup {"answer"}
  ELSE IF world[service] = "down" THEN Failures
  ELSE {"answer"}

\* whether the service, when it answers, may answer with this page
answers(world, service, page) == world[service] \in {"any", page}

\* fetchOfstedData(urn) once its request has ended: "real" for the object it
\* resolves to, "null" for null, "throws" for a rejection
fetchOfstedDataUncaught(outcome) ==
  IF outcome = "answer" THEN "real"
  ELSE IF outcome = "unparsed" THEN "null"
  ELSE "throws"

fetchOfstedData(outcome) == IF outcome = "answer" THEN "real" ELSE "null"

\* fetchPerformanceData(urn, phase) once its request has ended
fetchPerformanceDataUncaught(outcome) ==
  IF outcome = "answer" THEN "real"
  ELSE IF outcome = "unparsed" THEN "null"
  ELSE "throws"

fetchPerformanceData(outcome) == IF outcome = "answer" THEN "real" ELSE "null"

\* scrapeSchoolWebsite(url); outcome "none" when it makes no request
scrapeSchoolWebsite(url, outcome) ==
  IF url = "" \/ ~startsWithHttp(url) THEN "null"
  ELSE IF outcome = "answer" THEN "real"
  ELSE "null"

\* no request was made
NoFetch == [service |-> "none", outcome |-> "none"]

\* the one closure seedRandom(seed) returned to enrichSchool
TheRng == 1

VARIABLES
  school,     \* the input record
  version,    \* which extract.js runs
  mode,       \* the pipeline mode
  pc,         \* where enrichSchool stands: idle, ofsted, performance, contact,
              \* synthetic, done
  seed,       \* const seed
  rng,        \* const rng (the closure's state)
  sources,    \* ofstedSource, performanceSource, contactSource
  enriched,   \* const enriched: its sub-records
  prev,       \* what the previous run on the same record returned
  called,     \* what a generator called on its own returned
  exported,   \* the object the export builds of the row
  net,        \* what each service does when asked: "any" (it may do anything),
              \* "down" (every request fails) or the page it answers with
  fetch,      \* the request the last step of enrichSchool awaited and how it ended
  calls,      \* the generators called for the record so far, each with the
              \* closure it drew from
  stage,      \* where main stands: off (no run), start, running (the loop
              \* and the writing), exited
  gias,       \* what extractGIAS meets in this run
  schoolsJs,  \* public/data/schools.js: <<its content>>, or null when missing
  schoolsJson,\* public/data/schools.json, the same way
  schools,    \* let schools
  loopI,      \* the loop's i: how many records have been enriched
  enrichedSchools, \* const enriched of main
  inFlight,   \* how many calls of enrichSchool have not settled
  waited,     \* the milliseconds slept since the last record
  writes,     \* how often this run has written a file
  exitCode,   \* <<the code of process.exit>>, null while the process runs
  clock,      \* the number of the run, its timestamp
  atStart,    \* schools.js and schools.json as the run found them
  previous    \* the previous run: its input list, what it handed to
              \* writeOutput, its files and its exit code

VARIABLES
  cache,      \* cache/gias_establishments.csv: null, or <<its mtime and rows>>
  giasCall    \* what the last call of extractGIAS met and did

cacheVars == <<cache, giasCall>>

VARIABLES
  users,           \* the table users of the server's database, by id
  password_resets, \* the table password_resets, in the order of insertion
  invoices,        \* the table invoices
  accepted         \* the calls of resetPassword that returned without throwing

dbVars == <<users, password_resets, invoices, accepted>>

mainVars == <<cacheVars, dbVars, stage, gias, schoolsJs, schoolsJson, schools, loopI, enrichedSchools, inFlight, waited, writes, exitCode, clock, atStart, previous>>

vars == <<school, version, mode, pc, seed, rng, sources, enriched, prev, called, exported, net, fetch, calls, mainVars>>

\* no pipeline run: enrichSchool and the generators are called on their own
NoRun ==
  /\ stage = "off"
  /\ gias = [kind |-> "unavailable"]
  /\ schoolsJs = null
  /\ schoolsJson = null
  /\ schools = <<>>
  /\ loopI = 0
  /\ enrichedSchools = <<>>
  /\ inFlight = 0
  /\ waited = 0
  /\ writes = 0
  /\ exitCode = null
  /\ clock = 0
  /\ atStart = [js |-> null, json |-> null]
  /\ previous = undefined
  /\ cache = null
  /\ giasCall = undefined

\* the server does not run: no table has a row
NoDb ==
  /\ users = <<>>
  /\ password_resets = <<>>
  /\ invoices = <<>>
  /\ accepted = <<>>

Init ==
  /\ school \in Schools
  /\ version = "extract"
  /\ mode = "quick"
  /\ pc = "idle"
  /\ seed = 0
  /\ rng = seedRandom(0)
  /\ sources = [ofsted |-> "synthetic", performance |-> "synthetic", contact |-> "synthetic"]
  /\ enriched = Blank
  /\ prev = undefined
  /\ called = Blank
  /\ exported = undefined
  /\ net = [s \in Services |-> "any"]
  /\ fetch = NoFetch
  /\ calls = <<>>
  /\ NoRun
  /\ NoDb

\* enriched[field] = g.val, g what a generator returned, and the closure moves on
assign(field, g) ==
  /\ enriched' = [enriched EXCEPT ![field] = g.val]
  /\ rng' = g.rng

\* what the step records of the request it awaited
requested(service, outcome) ==
  IF outcome = "none" THEN NoFetch ELSE [service |-> service, outcome |-> outcome]

\* a step that asks the service in every mode
unansweredAnyMode(service) == Failures \cap outcomes(net, service)

\* the ways a step can end without real data: no request in quick mode
\* ("none"), a failed request otherwise
unanswered(service) ==
  IF mode = "quick" THEN {"none"} ELSE Failures \cap outcomes(net, service)

\* the same for the contact step: a request is made in full mode for a record
\* with a website, and only when the url starts with "http"
unscraped ==
  IF mode # "full" \/ school.website = "" \/ ~startsWithHttp(school.website) THEN {"none"}
  ELSE Failures \cap outcomes(net, "website")

\* enrichSchool(school, mode) up to its first await
enrichSchool ==
  /\ pc = "idle"
  /\ called = Blank
  /\ \E v \in Versions, m \in Modes :
       /\ version' = v
       /\ mode' = m
  /\ seed' = seedOf(school)
  /\ rng' = seedRandom(seedOf(school))
  /\ sources' = [ofsted |-> "synthetic", performance |-> "synthetic", contact |-> "synthetic"]
  /\ enriched' = Blank
  /\ pc' = "ofsted"
  /\ fetch' = NoFetch
  /\ calls' = <<>>
  /\ UNCHANGED <<school, prev, called, exported, net, mainVars>>

\* fetchOfstedData resolved to a rating
realOfsted ==
  /\ pc = "ofsted"
  /\ mode \in {"enrich", "full"}
  /\ "answer" \in outcomes(net, "ofsted")
  /\ fetchOfstedData("answer") = "real"
  /\ \E r \in RealOfsted(school) :
       /\ answers(net, "ofsted", r.rating)
       /\ enriched' = [enriched EXCEPT !.ofsted =
                         [rating |-> r.rating, date |-> r.date, previousRating |-> null,
                          previousDate |-> null, report |-> r.report, parentView |-> null]]
  /\ sources' = [sources EXCEPT !.ofsted = "real"]
  /\ fetch' = [service |-> "ofsted", outcome |-> "answer"]
  /\ pc' = "performance"
  /\ UNCHANGED <<school, version, mode, seed, rng, prev, called, exported, net, calls, mainVars>>

\* no fetch (quick mode) or fetchOfstedData resolved to null
syntheticOfsted ==
  /\ pc = "ofsted"
  /\ \E o \in unanswered("ofsted") :
       /\ fetch' = requested("ofsted", o)
       /\ IF o # "none" /\ fetchOfstedData(o) = "throws"
          THEN /\ pc' = "rejected"
               /\ UNCHANGED <<enriched, rng, calls, mainVars>>
          ELSE /\ assign("ofsted", generateSyntheticOfsted(school, rng))
               /\ calls' = Append(calls, [generator |-> "ofsted", closure |-> TheRng])
               /\ pc' = "performance"
  /\ UNCHANGED <<school, version, mode, seed, sources, prev, called, exported, net, mainVars>>

\* fetchPerformanceData resolved to a response
realPerformance ==
  /\ pc = "performance"
  /\ mode \in {"enrich", "full"}
  /\ "answer" \in outcomes(net, "performance")
  /\ fetchPerformanceData("answer") = "real"
  /\ sources' = [sources EXCEPT !.performance = "real"]
  /\ fetch' = [service |-> "performance", outcome |-> "answer"]
  /\ pc' = "contact"
  /\ UNCHANGED <<school, version, mode, seed, rng, enriched, prev, called, exported, net, calls, mainVars>>

\* no fetch (quick mode) or fetchPerformanceData resolved to null
syntheticPerformance ==
  /\ pc = "performance"
  /\ \E o \in unanswered("performance") :
       /\ fetch' = requested("performance", o)
       /\ IF o # "none" /\ fetchPerformanceData(o) = "throws"
          THEN /\ pc' = "rejected"
               /\ UNCHANGED <<enriched, rng, calls, mainVars>>
          ELSE /\ assign("performance",
                         IF version = "part_004"
                         THEN generateSyntheticPerformance_p4(school, rng)
                         ELSE generateSyntheticPerformance(school, rng))
               /\ calls' = Append(calls, [generator |-> "performance", closure |-> TheRng])
               /\ pc' = "contact"
  /\ UNCHANGED <<school, version, mode, seed, sources, prev, called, exported, net, mainVars>>

\* scrapeSchoolWebsite resolved to a match
scrapedContact ==
  /\ pc = "contact"
  /\ mode = "full"
  /\ school.website # ""
  /\ "answer" \in outcomes(net, "website")
  /\ scrapeSchoolWebsite(school.website, "answer") = "real"
  /\ \E c \in Scraped :
       /\ answers(net, "website", IF c.phone # null THEN "phone" ELSE "email")
       /\ enriched' = [enriched EXCEPT !.contact = c]
  /\ sources' = [sources EXCEPT !.contact = "real"]
  /\ fetch' = [service |-> "website", outcome |-> "answer"]
  /\ pc' = "synthetic"
  /\ UNCHANGED <<school, version, mode, seed, rng, prev, called, exported, net, calls, mainVars>>

\* no scrape or scrapeSchoolWebsite resolved to null; school.name.toLowerCase()
\* of generateSyntheticContact throws for a record without a name
syntheticContact ==
  /\ pc = "contact"
  /\ \E o \in unscraped :
       /\ fetch' = requested("website", o)
       /\ IF (o # "none" /\ scrapeSchoolWebsite(school.website, o) = "throws") \/ school.name = <<>>
          THEN /\ pc' = "rejected"
               /\ UNCHANGED <<enriched, rng, calls, mainVars>>
          ELSE /\ assign("contact", generateSyntheticContact(school, rng))
               /\ calls' = Append(calls, [generator |-> "contact", closure |-> TheRng])
               /\ pc' = "synthetic"
  /\ UNCHANGED <<school, version, mode, seed, sources, prev, called, exported, net, mainVars>>

\* enriched.admissions = a.val; enriched.demographics = m.val;
\* enriched.finances = f.val; enriched._dataSources = {...}
assignLast(a, m, f) ==
  /\ enriched' = [enriched EXCEPT
                    !.admissions = a.val,
                    !.demographics = m.val,
                    !.finances = f.val,
                    !.dataSources =
                      [ofsted |-> sources.ofsted,
                       performance |-> sources.performance,
                       contact |-> sources.contact,
                       admissions |-> "synthetic",
                       demographics |-> "synthetic",
                       finances |-> "synthetic"]]
  /\ rng' = f.rng

thenFinances(a, m) == assignLast(a, m, generateSyntheticFinances(school, m.rng))

thenDemographics(a) ==
  thenFinances(a, IF version = "part_004" THEN generateSyntheticDemographics_p4(school, a.rng)
                  ELSE generateSyntheticDemographics(school, a.rng))

\* "Always synthetic for these", _dataSources and the return
alwaysSynthetic ==
  /\ pc = "synthetic"
  /\ thenDemographics(IF version = "part_004" THEN generateSyntheticAdmissions_p4(school, rng)
                      ELSE generateSyntheticAdmissions(school, rng))
  /\ calls' = calls \o <<[generator |-> "admissions", closure |-> TheRng],
                          [generator |-> "demographics", closure |-> TheRng],
                          [generator |-> "finances", closure |-> TheRng]>>
  /\ fetch' = NoFetch
  /\ pc' = "done"
  /\ UNCHANGED <<school, version, mode, seed, sources, prev, called, exported, net, mainVars>>

\* the same record is enriched once more, in the same mode
enrichAgain ==
  /\ pc = "done"
  /\ prev = undefined
  /\ prev' = enriched
  /\ seed' = seedOf(school)
  /\ rng' = seedRandom(seedOf(school))
  /\ sources' = [ofsted |-> "synthetic", performance |-> "synthetic", contact |-> "synthetic"]
  /\ enriched' = Blank
  /\ pc' = "ofsted"
  /\ fetch' = NoFetch
  /\ calls' = <<>>
  /\ UNCHANGED <<school, version, mode, called, exported, net, mainVars>>

\* one generator called on its own, with the rng the caller hands it
returned(field, val) ==
  /\ pc = "idle"
  /\ called = Blank
  /\ called' = [called EXCEPT ![field] = val]
  /\ pc' = "called"
  /\ UNCHANGED <<school, mode, seed, rng, sources, enriched, prev, exported, net, fetch, calls, mainVars>>

callOfsted ==
  \E r \in RngArgs :
    /\ returned("ofsted", generateSyntheticOfsted(school, r).val)
    /\ UNCHANGED version

callPerformance ==
  \E v \in Versions, r \in RngArgs :
    /\ version' = v
    /\ returned("performance",
                IF v = "part_004" THEN generateSyntheticPerformance_p4(school, r).val
                ELSE generateSyntheticPerformance(school, r).val)

callContact ==
  \E r \in RngArgs :
    /\ returned("contact", generateSyntheticContact(school, r).val)
    /\ UNCHANGED version

callAdmissions ==
  \E v \in Versions, r \in RngArgs :
    /\ version' = v
    /\ returned("admissions",
                IF v = "part_004" THEN generateSyntheticAdmissions_p4(school, r).val
                ELSE generateSyntheticAdmissions(school, r).val)

callDemographics ==
  \E v \in Versions, r \in RngArgs :
    /\ version' = v
    /\ returned("demographics",
                IF v = "part_004" THEN generateSyntheticDemographics_p4(school, r).val
                ELSE generateSyntheticDemographics(school, r).val)

callFinances ==
  \E r \in RngArgs :
    /\ returned("finances", generateSyntheticFinances(school, r).val)
    /\ UNCHANGED version

\* export.js: the callback of schools.map for the row s = school at index idx
exportSchool ==
  /\ pc = "idle"
  /\ called = Blank
  /\ \E idx \in 0..MaxIdx :
       exported' = [id |-> idx + 1,
                    urn |-> school.urn,
                    phase |-> school.phase,
                    hasSixthForm |-> school.hasSixthForm,
                    performance |-> generatePerformanceData(school),
                    admissions |-> generateAdmissionsData(school),
                    demographics |-> generateDemographicsData(school),
                    ofsted |-> generateOfstedData(school),
                    contact |-> generateContactData(school),
                    finance |-> generateFinanceData(school)]
  /\ seed' = urnSeed(school)
  /\ calls' = <<[generator |-> "performance", closure |-> 1],
                [generator |-> "admissions", closure |-> 2],
                [generator |-> "demographics", closure |-> 3],
                [generator |-> "ofsted", closure |-> 4],
                [generator |-> "contact", closure |-> 5],
                [generator |-> "finances", closure |-> 6]>>
  /\ pc' = "exported"
  /\ UNCHANGED <<school, version, mode, rng, sources, enriched, prev, called, net, fetch, mainVars>>

Next ==
  \/ enrichSchool
  \/ realOfsted
  \/ syntheticOfsted
  \/ realPerformance
  \/ syntheticPerformance
  \/ scrapedContact
  \/ syntheticContact
  \/ alwaysSynthetic
  \/ enrichAgain
  \/ callOfsted
  \/ callPerformance
  \/ callContact
  \/ callAdmissions
  \/ callDemographics
  \/ callFinances
  \/ exportSchool

Spec == Init /\ [][Next]_vars

\* ------------------------------------------------------------------------
\* main: a run of the pipeline
\* ------------------------------------------------------------------------
\* const REQUEST_DELAY_MS
REQUEST_DELAY_MS == 200

\* transformed.length > 50: the least number of records main accepts from the
\* CSV, scaled down to the short lists of the model
MinRows == 1

LONDON_BOROUGHS ==
  {"Barking and Dagenham", "Barnet", "Bexley", "Brent", "Bromley", "Camden",
   "City of London", "Croydon", "Ealing", "Enfield", "Greenwich", "Hackney",
   "Hammersmith and Fulham", "Haringey", "Harrow", "Havering", "Hillingdon",
   "Hounslow", "Islington", "Kensington and Chelsea", "Kingston upon Thames",
   "Lambeth", "Lewisham", "Merton", "Newham", "Redbridge",
   "Richmond upon Thames", "Southwark", "Sutton", "Tower Hamlets",
   "Waltham Forest", "Wandsworth", "Westminster"}

TARGET_REGIONS == LONDON_BOROUGHS \cup KENT_DISTRICTS

\* the boroughs transformGIAS keeps: LONDON_BOROUGHS in extract.js,
\* TARGET_REGIONS in the later one
regionsOf(v) == IF v = "part_004" THEN TARGET_REGIONS ELSE LONDON_BOROUGHS

\* a row of the establishments CSV: the columns a record is made of, and
\* whether EstablishmentStatus (code) is "1" or missing
Row(k, open) == [school |-> SCHOOLS[k], open |-> open]

\* a record of a list of schools: the fields of the school and the
\* sub-records the object carries
Entry(s) == [school |-> s, sub |-> Blank]

\* la.toLowerCase().includes(b.toLowerCase()) for the names of the model, all
\* written as the tables write them: a name includes itself, and "Brentwood"
\* includes "Brent"
includes(la, b) == la = b \/ (la = "Brentwood" /\ b = "Brent")

\* rows.filter(isLondon && isOpen)
londonSchools(rows, regions) ==
  SelectSeq(rows, LAMBDA r : (\E b \in regions : includes(r.school.borough, b)) /\ r.open)

\* transformGIAS(rows): <<the list>>, or null for rows = null.  The id is the
\* place among the rows kept; a row without URN gets urn null (the empty
\* string of the model).
transformGIAS(rows, regions) ==
  IF rows = null THEN null
  ELSE LET kept == londonSchools(rows[1], regions)
           mapped == [k \in 1..Len(kept) |-> Entry([kept[k].school EXCEPT !.id = k])]
       IN  <<SelectSeq(mapped, LAMBDA e : e.school.name # <<>> /\ e.school.borough # "")>>

\* the CSVs of the model: two open London schools after a closed one, the
\* second without URN; the same two in the other order; the same two after a
\* Kent school; and a file that parses to no row
Csvs ==
  {<<Row(3, FALSE), Row(1, TRUE), Row(8, TRUE)>>,
   <<Row(8, TRUE), Row(1, TRUE)>>,
   <<Row(7, TRUE), Row(1, TRUE), Row(8, TRUE)>>,
   <<>>}

\* what extractGIAS can meet: a CSV (downloaded, or cached less than 24 hours
\* ago), a download that fails, a cached file that cannot be read
GiasInputs ==
  {[kind |-> "csv", rows |-> c] : c \in Csvs} \cup
  {[kind |-> "unavailable"], [kind |-> "unreadable"]}

\* the cached file is read inside the try block of extractGIAS
extractGIASCatches(input) == FALSE

\* extractGIAS() throws when reading the cached file throws
extractGIASThrows(input) == input.kind = "unreadable"

\* extractGIAS(): <<the rows parseCSV returns>>, or null when the download fails
extractGIAS(input) == IF input.kind = "csv" THEN <<input.rows>> ELSE null

\* two of the 50 records of REAL_KENT_SCHOOLS, "Tunbridge Wells Grammar
\* School for Boys" and "Cliffe Woods Primary School"
REAL_KENT_SCHOOLS ==
  <<[urn |-> Chars(118898), borough |-> "Tunbridge Wells", phase |-> "Secondary",
     pupils |-> 1100, hasSixthForm |-> TRUE, ofstedRating |-> "Good",
     fundingType |-> "Grammar",
     website |-> "https://www.tunbridgewellsgrammarscho.kent.sch.uk"],
    [urn |-> Chars(137100), borough |-> "Medway", phase |-> "Primary",
     pupils |-> 400, hasSixthForm |-> FALSE, ofstedRating |-> "Good",
     fundingType |-> "Maintained",
     website |-> "https://www.cliffewoodsprimaryschool.kent.sch.uk"]>>

\* generateKentSchools(startId): the real Kent schools, numbered from startId
\* (the 100 generated records that follow them are left out)
generateKentSchools(startId) ==
  [k \in 1..Len(REAL_KENT_SCHOOLS) |->
     LET r == REAL_KENT_SCHOOLS[k]
     IN  Entry(School(startId + k - 1, r.urn, r.borough, r.phase, "State", r.ofstedRating,
                      r.pupils, r.hasSixthForm, r.website, "None", r.fundingType))]

\* schools.some(s => KENT_DISTRICTS.some(...) || region === "kent")
hasKent(list) ==
  \E k \in 1..Len(list) : isKentSchool(list[k].school) \/ list[k].school.region = "Kent"

\* "Lambeth Academy" of the London seed data
LambethAcademy ==
  School(1, Chars(137100), "Lambeth", "Secondary", "State", "Good", 1100, TRUE,
         "", "None", "Academy")

\* the lists a static schools.js of the model holds: two London schools; the
\* same with a record without a name between them; no school
StaticLists ==
  {<<Entry(LambethAcademy), Entry([SCHOOLS[5] EXCEPT !.id = 2])>>,
   <<Entry(LambethAcademy), Entry([SCHOOLS[1] EXCEPT !.id = 2, !.name = <<>>]),
     Entry([SCHOOLS[5] EXCEPT !.id = 3])>>,
   <<>>}

\* sourceCounts of writeOutput
sourceCounts(list) ==
  LET all(e, v) == \A f \in {"ofsted", "performance", "contact", "admissions",
                            "demographics", "finances"} : e.sub.dataSources[f] = v
      marked == {k \in 1..Len(list) : list[k].sub.dataSources # undefined}
  IN  [real |-> Cardinality({k \in marked : all(list[k], "real")}),
       synthetic |-> Cardinality({k \in marked : all(list[k], "synthetic")}),
       mixed |-> Cardinality({k \in marked : ~all(list[k], "real") /\ ~all(list[k], "synthetic")})]

\* cleanSchools: the records without _dataSources
cleanSchools(list) ==
  [k \in 1..Len(list) |-> [list[k] EXCEPT !.sub.dataSources = undefined]]

\* what writeOutput writes to a file at the time now
fileOf(list, now) ==
  [generated |-> now, total |-> Len(list), dataSources |-> sourceCounts(list),
   schools |-> cleanSchools(list)]

\* a schools.js that no run has written
StaticFiles ==
  {<<[generated |-> 0, total |-> Len(l),
      dataSources |-> [real |-> 0, synthetic |-> 0, mixed |-> 0], schools |-> l]>> :
     l \in StaticLists} \cup {null}

\* loadStaticSchools(): <<the array of the file>>, null when there is no file
loadStaticSchools(file) == IF file = null THEN null ELSE <<file[1].schools>>

\* what the services do in a run of the model: nothing, or each answers
Worlds ==
  {[s \in Services |-> "down"],
   [ofsted |-> "Good", performance |-> "answer", website |-> "phone"]}

\* the Kent schools appended to whatever list main has
withKentUnchecked(v, list) ==
  IF v = "part_004" THEN list \o generateKentSchools(Len(list) + 1) ELSE list

\* the list main enriches after the static fallback: the later main appends
\* the Kent schools when the list holds none
withKent(v, list) ==
  IF v = "part_004" /\ ~hasKent(list) THEN list \o generateKentSchools(Len(list) + 1)
  ELSE list

\* a closure that is not made anew for the record
rngCarried(s, last) == last

\* const rng = seedRandom(seed) of enrichSchool; last is the closure of the
\* call before
rngOfCall(s, last) == seedRandom(seedOf(s))

\* a call of enrichSchool that the loop does not await
notAwaited == TRUE

\* await enrichSchool(school, mode): the loop goes on when the call has settled
awaited == inFlight = 0

\* await sleep(REQUEST_DELAY_MS), for i > 0 in enrich and full mode
slept == loopI > 0 /\ mode \in {"enrich", "full"} => waited = REQUEST_DELAY_MS

\* a loop that ends after its first record
passStarted == loopI > 0

\* the loop has ended: i = schools.length
passDone == loopI = Len(schools)

\* the first run of a process started on the inputs of the model
MainInit ==
  /\ school = SCHOOLS[1]
  /\ version \in Versions
  /\ mode \in Modes
  /\ net \in (IF mode = "quick" THEN {[s \in Services |-> "down"]} ELSE Worlds)
  /\ pc = "idle"
  /\ seed = 0
  /\ rng = seedRandom(0)
  /\ sources = [ofsted |-> "synthetic", performance |-> "synthetic", contact |-> "synthetic"]
  /\ enriched = Blank
  /\ prev = undefined
  /\ called = Blank
  /\ exported = undefined
  /\ fetch = NoFetch
  /\ calls = <<>>
  /\ stage = "start"
  /\ gias \in GiasInputs
  /\ schoolsJs \in StaticFiles
  /\ schoolsJson = null
  /\ schools = <<>>
  /\ loopI = 0
  /\ enrichedSchools = <<>>
  /\ inFlight = 0
  /\ waited = 0
  /\ writes = 0
  /\ exitCode = null
  /\ clock = 1
  /\ atStart = [js |-> schoolsJs, json |-> schoolsJson]
  /\ previous = undefined
  /\ cache = null
  /\ giasCall = undefined
  /\ NoDb

\* process.exit(code)
exit(code) ==
  /\ exitCode' = <<code>>
  /\ stage' = "exited"

\* main up to the loop: extractGIAS, transformGIAS, the static fallback
main ==
  /\ stage = "start"
  /\ IF extractGIASThrows(gias)
     THEN exit(1) /\ UNCHANGED schools
     ELSE LET transformed == transformGIAS(extractGIAS(gias), regionsOf(version))
              loaded == loadStaticSchools(schoolsJs)
          IN  IF transformed # null /\ Len(transformed[1]) > MinRows
              THEN /\ schools' = transformed[1]
                   /\ stage' = "running"
                   /\ UNCHANGED exitCode
              ELSE IF loaded = null \/ Len(loaded[1]) = 0
              THEN exit(1) /\ UNCHANGED schools
              ELSE /\ schools' = withKent(version, loaded[1])
                   /\ stage' = "running"
                   /\ UNCHANGED exitCode
  /\ UNCHANGED <<school, version, mode, pc, seed, rng, sources, enriched, prev, called, exported, net, fetch, calls>>
  /\ UNCHANGED <<gias, schoolsJs, schoolsJson, loopI, enrichedSchools, inFlight, waited, writes, clock, atStart, previous>>
  /\ UNCHANGED cacheVars
  /\ UNCHANGED dbVars

\* await sleep(REQUEST_DELAY_MS)
sleep ==
  /\ stage = "running"
  /\ ~passDone
  /\ awaited
  /\ ~slept
  /\ waited' = REQUEST_DELAY_MS
  /\ UNCHANGED <<school, version, mode, pc, seed, rng, sources, enriched, prev, called, exported, net, fetch, calls>>
  /\ UNCHANGED <<stage, gias, schoolsJs, schoolsJson, schools, loopI, enrichedSchools, inFlight, writes, exitCode, clock, atStart, previous>>
  /\ UNCHANGED cacheVars
  /\ UNCHANGED dbVars

\* enrichSchool(schools[i], mode), called by the loop, up to its first await
enrichNext ==
  /\ stage = "running"
  /\ ~passDone
  /\ awaited
  /\ slept
  /\ school' = schools[loopI + 1].school
  /\ seed' = seedOf(schools[loopI + 1].school)
  /\ rng' = rngOfCall(schools[loopI + 1].school, rng)
  /\ sources' = [ofsted |-> "synthetic", performance |-> "synthetic", contact |-> "synthetic"]
  /\ enriched' = schools[loopI + 1].sub
  /\ pc' = "ofsted"
  /\ fetch' = NoFetch
  /\ calls' = <<>>
  /\ inFlight' = inFlight + 1
  /\ UNCHANGED <<version, mode, prev, called, exported, net>>
  /\ UNCHANGED <<stage, gias, schoolsJs, schoolsJson, schools, loopI, enrichedSchools, waited, writes, exitCode, clock, atStart, previous>>
  /\ UNCHANGED cacheVars
  /\ UNCHANGED dbVars

\* enriched.push(enrichedSchool) and i++
push ==
  /\ stage = "running"
  /\ pc = "done"
  /\ enrichedSchools' = Append(enrichedSchools, [school |-> school, sub |-> enriched])
  /\ loopI' = loopI + 1
  /\ inFlight' = inFlight - 1
  /\ waited' = 0
  /\ pc' = "idle"
  /\ UNCHANGED <<school, version, mode, seed, rng, sources, enriched, prev, called, exported, net, fetch, calls>>
  /\ UNCHANGED <<stage, gias, schoolsJs, schoolsJson, schools, writes, exitCode, clock, atStart, previous>>
  /\ UNCHANGED cacheVars
  /\ UNCHANGED dbVars

\* enrichSchool rejected: catch (err) { ...; process.exit(1) }
caught ==
  /\ stage = "running"
  /\ pc = "rejected"
  /\ exit(1)
  /\ inFlight' = inFlight - 1
  /\ UNCHANGED <<school, version, mode, pc, seed, rng, sources, enriched, prev, called, exported, net, fetch, calls>>
  /\ UNCHANGED <<gias, schoolsJs, schoolsJson, schools, loopI, enrichedSchools, waited, writes, clock, atStart, previous>>
  /\ UNCHANGED cacheVars
  /\ UNCHANGED dbVars

\* writeOutput(enriched) and the end of main: both files are written, or
\* fs.writeFileSync throws at one of them and the catch exits with 1
writeOutput ==
  /\ stage = "running"
  /\ passDone
  /\ awaited
  /\ \E failing \in {"none", "schools.js", "schools.json"} :
       /\ schoolsJs' = IF failing = "schools.js" THEN schoolsJs
                       ELSE <<fileOf(enrichedSchools, clock)>>
       /\ schoolsJson' = IF failing = "none" THEN <<fileOf(enrichedSchools, clock)>>
                         ELSE schoolsJson
       /\ exit(IF failing = "none" THEN 0 ELSE 1)
  /\ writes' = writes + 1
  /\ UNCHANGED <<school, version, mode, pc, seed, rng, sources, enriched, prev, called, exported, net, fetch, calls>>
  /\ UNCHANGED <<gias, schools, loopI, enrichedSchools, inFlight, waited, clock, atStart, previous>>
  /\ UNCHANGED cacheVars
  /\ UNCHANGED dbVars

\* the pipeline is started once more, in the same mode and with the services
\* as they were; the CSV may be another
runAgain ==
  /\ stage = "exited"
  /\ previous = undefined
  /\ previous' = [gias |-> gias, schools |-> schools, handed |-> enrichedSchools,
                  js |-> schoolsJs, json |-> schoolsJson, exitCode |-> exitCode,
                  writes |-> writes]
  /\ gias' \in GiasInputs
  /\ clock' = clock + 1
  /\ atStart' = [js |-> schoolsJs, json |-> schoolsJson]
  /\ stage' = "start"
  /\ schools' = <<>>
  /\ loopI' = 0
  /\ enrichedSchools' = <<>>
  /\ inFlight' = 0
  /\ waited' = 0
  /\ writes' = 0
  /\ exitCode' = null
  /\ pc' = "idle"
  /\ seed' = 0
  /\ rng' = seedRandom(0)
  /\ sources' = [ofsted |-> "synthetic", performance |-> "synthetic", contact |-> "synthetic"]
  /\ enriched' = Blank
  /\ fetch' = NoFetch
  /\ calls' = <<>>
  /\ UNCHANGED <<school, version, mode, prev, called, exported, net, schoolsJs, schoolsJson>>
  /\ UNCHANGED cacheVars
  /\ UNCHANGED dbVars

MainNext ==
  \/ main
  \/ sleep
  \/ enrichNext
  \/ realOfsted
  \/ syntheticOfsted
  \/ realPerformance
  \/ syntheticPerformance
  \/ scrapedContact
  \/ syntheticContact
  \/ alwaysSynthetic
  \/ push
  \/ caught
  \/ writeOutput
  \/ runAgain

Pipeline == MainInit /\ [][MainNext]_vars

\* ------------------------------------------------------------------------
\* extractGIAS and its cached file
\* ------------------------------------------------------------------------
\* ageHours < 24
CACHE_HOURS == 24

\* the hours the clock of the model runs
MaxHours == 26

\* the CSVs a download of the model brings: the two London schools, no row
DownloadedCsvs == {c \in Csvs : Len(c) \in {0, 2}}

\* the cached file is used up to and at 24 hours
cacheFreshAtMost(c, t) == c # null /\ t - c[1].mtime <= CACHE_HOURS

\* fs.existsSync(cachedFile) and ageHours < 24, at the time t in hours
cacheFresh(c, t) == c # null /\ t - c[1].mtime < CACHE_HOURS

\* an hour passes
hourPasses ==
  /\ clock < MaxHours
  /\ clock' = clock + 1
  /\ UNCHANGED <<school, version, mode, pc, seed, rng, sources, enriched, prev, called, exported, net, fetch, calls>>
  /\ UNCHANGED <<stage, gias, schoolsJs, schoolsJson, schools, loopI, enrichedSchools, inFlight, waited, writes, exitCode, atStart, previous>>
  /\ UNCHANGED cacheVars
  /\ UNCHANGED dbVars

\* a call of extractGIAS(): gias is what it met, the rows it returns, a
\* cached file it could not read (it throws) or a download that failed (null)
extractGIASRun ==
  /\ giasCall' = [cached |-> cache, at |-> clock, downloaded |-> ~cacheFresh(cache, clock)]
  /\ IF cacheFresh(cache, clock)
     THEN /\ gias' \in {[kind |-> "csv", rows |-> cache[1].rows], [kind |-> "unreadable"]}
          /\ UNCHANGED cache
     ELSE \E got \in {[kind |-> "csv", rows |-> c] : c \in DownloadedCsvs} \cup {[kind |-> "unavailable"]} :
            /\ gias' = got
            /\ cache' = IF got.kind = "csv" THEN <<[mtime |-> clock, rows |-> got.rows]>> ELSE cache
  /\ UNCHANGED <<school, version, mode, pc, seed, rng, sources, enriched, prev, called, exported, net, fetch, calls>>
  /\ UNCHANGED <<stage, schoolsJs, schoolsJson, schools, loopI, enrichedSchools, inFlight, waited, writes, exitCode, clock, atStart, previous>>
  /\ UNCHANGED dbVars

\* calls of extractGIAS as the hours pass
CachingInit == Init /\ school = SCHOOLS[1]

CachingNext ==
  \/ hourPasses
  \/ extractGIASRun

Caching == CachingInit /\ [][CachingNext]_vars

\* ------------------------------------------------------------------------
\* transformGIAS on the rows of a CSV
\* ------------------------------------------------------------------------
\* const isOpen = statusCode === "" || statusCode === "1"
isOpen(statusCode) == statusCode \in {"", "1"}

\* a row with its EstablishmentStatus (code): "" when the column is missing
GiasRow(s, statusCode) == [school |-> s, open |-> isOpen(statusCode), status |-> statusCode]

\* the rows of the CSVs of the model: an open London school, a closed one, an
\* open Kent school, a London school without status, an open London row
\* without EstablishmentName, an open school outside London and Kent, and an
\* open school of an authority whose name begins with that of a borough
GiasRows ==
  {GiasRow(SCHOOLS[1], "1"), GiasRow(SCHOOLS[3], "2"), GiasRow(SCHOOLS[7], "1"),
   GiasRow(SCHOOLS[8], ""), GiasRow([SCHOOLS[2] EXCEPT !.name = <<>>], "1"),
   GiasRow([SCHOOLS[5] EXCEPT !.borough = "Essex", !.region = ""], "1"),
   GiasRow([SCHOOLS[6] EXCEPT !.borough = "Brentwood", !.region = ""], "1")}

\* the most rows of a CSV
MaxRows == 3

\* the CSVs: up to MaxRows rows, no row twice
TransformCsvs ==
  {c \in UNION {[1..n -> GiasRows] : n \in 0..MaxRows} :
     \A j, k \in 1..Len(c) : j # k => c[j] # c[k]}

\* the first transformGIAS of part_004 (lines 152-187): London rows, whatever
\* their status
transformGIAS_first(rows) ==
  IF rows = null THEN null
  ELSE LET kept == SelectSeq(rows[1], LAMBDA r : \E b \in LONDON_BOROUGHS : includes(r.school.borough, b))
           mapped == [k \in 1..Len(kept) |-> Entry([kept[k].school EXCEPT !.id = k])]
       IN  <<SelectSeq(mapped, LAMBDA e : e.school.name # <<>> /\ e.school.borough # "")>>

\* the three transformGIAS of the sources
TransformVersions == Versions \cup {"part_004_first"}

\* the regions a version keeps
targetOf(v) == IF v = "part_004_first" THEN LONDON_BOROUGHS ELSE regionsOf(v)

\* transformGIAS(giasRows) of the version
transformOf(v, rows) ==
  IF v = "part_004_first" THEN transformGIAS_first(rows) ELSE transformGIAS(rows, regionsOf(v))

TransformInit ==
  /\ school = SCHOOLS[1]
  /\ version \in TransformVersions
  /\ mode = "quick"
  /\ pc = "idle"
  /\ seed = 0
  /\ rng = seedRandom(0)
  /\ sources = [ofsted |-> "synthetic", performance |-> "synthetic", contact |-> "synthetic"]
  /\ enriched = Blank
  /\ prev = undefined
  /\ called = Blank
  /\ exported = undefined
  /\ net = [s \in Services |-> "any"]
  /\ fetch = NoFetch
  /\ calls = <<>>
  /\ stage = "off"
  /\ gias \in {[kind |-> "csv", rows |-> c] : c \in TransformCsvs}
  /\ schoolsJs = null
  /\ schoolsJson = null
  /\ schools = <<>>
  /\ loopI = 0
  /\ enrichedSchools = <<>>
  /\ inFlight = 0
  /\ waited = 0
  /\ writes = 0
  /\ exitCode = null
  /\ clock = 0
  /\ atStart = [js |-> null, json |-> null]
  /\ previous = undefined
  /\ cache = null
  /\ giasCall = undefined
  /\ NoDb

\* const transformed = transformGIAS(giasRows)
transform ==
  /\ stage = "off"
  /\ schools' = transformOf(version, extractGIAS(gias))[1]
  /\ stage' = "transformed"
  /\ UNCHANGED <<school, version, mode, pc, seed, rng, sources, enriched, prev, called, exported, net, fetch, calls>>
  /\ UNCHANGED <<gias, schoolsJs, schoolsJson, loopI, enrichedSchools, inFlight, waited, writes, exitCode, clock, atStart, previous>>
  /\ UNCHANGED cacheVars
  /\ UNCHANGED dbVars

TransformNext == transform

Transform == TransformInit /\ [][TransformNext]_vars

\* ------------------------------------------------------------------------
\* services/auth.js: the password reset
\* ------------------------------------------------------------------------
\* the variables of the pipeline, which the server leaves alone, but for the
\* clock
pipelineVars == <<school, version, mode, pc, seed, rng, sources, enriched, prev, called, exported, net, fetch, calls, cacheVars, stage, gias, schoolsJs, schoolsJson, schools, loopI, enrichedSchools, inFlight, waited, writes, exitCode, atStart, previous>>

\* crypto.createHash("sha256").update(token).digest("hex"): no two tokens of
\* the model have the same digest
hashToken(token) == <<"sha256", token>>

\* bcrypt.hashSync(password, 12)
hashSync(password) == <<"bcrypt", password>>

\* the row INSERT INTO users makes, with the defaults of the schema
newUser(email, password) ==
  [email |-> email, password_hash |-> hashSync(password), plan |-> "free",
   stripe_customer_id |-> null, stripe_subscription_id |-> null,
   subscription_status |-> "none", subscription_period_end |-> null]

\* new Date(ms).toISOString(), "YYYY-MM-DDTHH:MM:SS.sssZ", of the hour t: the
\* date, the code of the letter T, the time of day, the milliseconds
toISOString(t) == <<t \div 24, 84, t % 24, 0>>

\* datetime('now') of SQLite, "YYYY-MM-DD HH:MM:SS", in the hour t: the date,
\* the code of the blank, the time of day
datetime(t) == <<t \div 24, 32, t % 24>>

\* a > b of two TEXT values of SQLite: the first place where they differ
\* decides, and of a text and its beginning the longer is the greater
RECURSIVE textGreater(_, _)
textGreater(a, b) ==
  IF a = <<>> THEN FALSE
  ELSE IF b = <<>> THEN TRUE
  ELSE IF a[1] # b[1] THEN a[1] > b[1]
  ELSE textGreater(Tail(a), Tail(b))

\* Date.now() + 3600000, in hours
RESET_HOURS == 1

\* the most rows of password_resets
MaxResets == 2

\* the addresses a reset is asked for: the one of the account and one of none
Emails == {"a@example.org", "nobody@example.org"}

\* the passwords of the requests
Passwords == {"p1", "p2"}

\* requestPasswordReset(email): the raw token is the number of the row
requestPasswordReset(email) ==
  LET user == {u \in DOMAIN users : users[u].email = email}
      rawToken == Len(password_resets) + 1
  IN  /\ IF user = {}
         THEN UNCHANGED password_resets
         ELSE /\ Len(password_resets) < MaxResets
              /\ password_resets' =
                   Append(password_resets,
                          [id |-> rawToken, user_id |-> CHOOSE u \in user : TRUE,
                           token_hash |-> hashToken(rawToken),
                           expires_at |-> toISOString(clock + RESET_HOURS),
                           used |-> 0, created_at |-> datetime(clock)])
      /\ UNCHANGED <<users, invoices, accepted, clock, pipelineVars>>

\* the rows SELECT * FROM password_resets WHERE token_hash = ? AND used = 0
\* AND expires_at > datetime('now') finds
resetRows(tokenHash, now) ==
  {k \in 1..Len(password_resets) :
     /\ password_resets[k].token_hash = tokenHash
     /\ password_resets[k].used = 0
     /\ textGreater(password_resets[k].expires_at, datetime(now))}

\* resetPassword({token, newPassword}): the row is one of the latest of
\* those found (ORDER BY created_at DESC LIMIT 1); without a row it throws
resetPassword(token, newPassword) ==
  LET rows == resetRows(hashToken(token), clock)
      latest == {k \in rows : \A j \in rows :
                   ~textGreater(password_resets[j].created_at, password_resets[k].created_at)}
  IN  /\ IF rows = {}
         THEN UNCHANGED <<users, password_resets, accepted>>
         ELSE \E k \in latest :
                /\ users' = [users EXCEPT ![password_resets[k].user_id].password_hash = hashSync(newPassword)]
                /\ password_resets' = [password_resets EXCEPT ![k].used = 1]
                /\ accepted' = Append(accepted, [token |-> token, row |-> k, at |-> clock])
      /\ UNCHANGED <<invoices, clock, pipelineVars>>

\* the server at 21:00 of its first day, with one account
AuthInit ==
  /\ school = SCHOOLS[1]
  /\ version = "extract"
  /\ mode = "quick"
  /\ pc = "idle"
  /\ seed = 0
  /\ rng = seedRandom(0)
  /\ sources = [ofsted |-> "synthetic", performance |-> "synthetic", contact |-> "synthetic"]
  /\ enriched = Blank
  /\ prev = undefined
  /\ called = Blank
  /\ exported = undefined
  /\ net = [s \in Services |-> "any"]
  /\ fetch = NoFetch
  /\ calls = <<>>
  /\ stage = "off"
  /\ gias = [kind |-> "unavailable"]
  /\ schoolsJs = null
  /\ schoolsJson = null
  /\ schools = <<>>
  /\ loopI = 0
  /\ enrichedSchools = <<>>
  /\ inFlight = 0
  /\ waited = 0
  /\ writes = 0
  /\ exitCode = null
  /\ clock = 21
  /\ atStart = [js |-> null, json |-> null]
  /\ previous = undefined
  /\ cache = null
  /\ giasCall = undefined
  /\ users = [u \in {"u1"} |-> newUser("a@example.org", "p0")]
  /\ password_resets = <<>>
  /\ invoices = <<>>
  /\ accepted = <<>>

AuthNext ==
  \/ hourPasses
  \/ \E email \in Emails : requestPasswordReset(email)
  \/ \E token \in 1..MaxResets, newPassword \in Passwords : resetPassword(token, newPassword)

Auth == AuthInit /\ [][AuthNext]_vars

\* ------------------------------------------------------------------------
\* The Stripe service: the webhook events
\* ------------------------------------------------------------------------
\* the rows of users in the order of their rowid
UserOrder == <<"u1", "u2">>

\* db.prepare("SELECT ... FROM users WHERE column = ?").get(value): <<the id
\* of the first row>>, or null
getUserBy(column, value) ==
  LET found == {k \in 1..Len(UserOrder) : users[UserOrder[k]][column] = <<value>>}
  IN  IF found = {} THEN null
      ELSE <<UserOrder[CHOOSE k \in found : \A j \in found : k <= j]>>

\* the status of a subscription at Stripe
StripeStatuses ==
  {"active", "past_due", "trialing", "canceled", "unpaid", "incomplete",
   "incomplete_expired", "paused"}

\* the ids of the subscriptions and of the customers of the events; cus_9 is
\* the customer of no user
Subscriptions == {"sub_1", "sub_2"}
Customers == {"cus_1", "cus_2", "cus_9"}

\* the most rows of invoices
MaxInvoices == 1

\* event.data.object of checkout.session.completed: metadata.userId and
\* metadata.plan are null when missing
CheckoutSessions ==
  [userId : {null, <<"u1">>, <<"u2">>}, plan : {null, <<"pro">>, <<"enterprise">>},
   subscription : Subscriptions]

\* event.data.object of customer.subscription.updated and .deleted:
\* current_period_end is 0 when missing, else the hour the period ends
SubscriptionObjects == [id : Subscriptions, status : StripeStatuses, current_period_end : {0, 48}]

\* event.data.object of invoice.paid and invoice.payment_failed
InvoiceObjects == [customer : Customers, id : {"in_1"}]

\* onCheckoutComplete(session)
onCheckoutComplete(session) ==
  /\ users' =
       IF session.userId = null \/ session.plan = null \/ session.userId[1] \notin DOMAIN users
       THEN users
       ELSE [users EXCEPT ![session.userId[1]] =
               [@ EXCEPT !.plan = session.plan[1],
                         !.stripe_subscription_id = <<session.subscription>>,
                         !.subscription_status = "active"]]
  /\ UNCHANGED invoices

\* const status of onSubscriptionChange
statusOf(sub) ==
  IF sub.status = "active" THEN "active"
  ELSE IF sub.status = "past_due" THEN "past_due"
  ELSE IF sub.status = "trialing" THEN "trialing"
  ELSE "canceled"

\* const plan of onSubscriptionChange
planOf(sub, user) == IF sub.status = "canceled" THEN "free" ELSE user.plan

\* onSubscriptionChange(sub)
onSubscriptionChange(sub) ==
  LET user == getUserBy("stripe_subscription_id", sub.id)
      periodEnd == IF sub.current_period_end # 0 THEN <<toISOString(sub.current_period_end)>> ELSE null
  IN  /\ users' =
           IF user = null THEN users
           ELSE [users EXCEPT ![user[1]] =
                   [@ EXCEPT !.plan = planOf(sub, users[user[1]]),
                             !.subscription_status = statusOf(sub),
                             !.subscription_period_end = periodEnd]]
      /\ UNCHANGED invoices

\* onInvoicePaid(inv): one more row of invoices
onInvoicePaid(inv) ==
  LET user == getUserBy("stripe_customer_id", inv.customer)
  IN  /\ IF user = null
         THEN UNCHANGED invoices
         ELSE /\ Len(invoices) < MaxInvoices
              /\ invoices' = Append(invoices, [user_id |-> user[1], stripe_invoice_id |-> inv.id, status |-> "paid"])
      /\ UNCHANGED users

\* onInvoiceFailed(inv)
onInvoiceFailed(inv) ==
  LET user == getUserBy("stripe_customer_id", inv.customer)
  IN  /\ users' = IF user = null THEN users
                  ELSE [users EXCEPT ![user[1]].subscription_status = "past_due"]
      /\ UNCHANGED invoices

\* handleWebhookEvent(event)
handleWebhookEvent(event) ==
  /\ CASE event.type = "checkout.session.completed" -> onCheckoutComplete(event.object)
       [] event.type \in {"customer.subscription.updated", "customer.subscription.deleted"} ->
            onSubscriptionChange(event.object)
       [] event.type = "invoice.paid" -> onInvoicePaid(event.object)
       [] event.type = "invoice.payment_failed" -> onInvoiceFailed(event.object)
       [] OTHER -> UNCHANGED <<users, invoices>>
  /\ UNCHANGED <<password_resets, accepted, clock, pipelineVars>>

\* the server with two accounts, each a customer of Stripe, before any event
BillingInit ==
  /\ school = SCHOOLS[1]
  /\ version = "extract"
  /\ mode = "quick"
  /\ pc = "idle"
  /\ seed = 0
  /\ rng = seedRandom(0)
  /\ sources = [ofsted |-> "synthetic", performance |-> "synthetic", contact |-> "synthetic"]
  /\ enriched = Blank
  /\ prev = undefined
  /\ called = Blank
  /\ exported = undefined
  /\ net = [s \in Services |-> "any"]
  /\ fetch = NoFetch
  /\ calls = <<>>
  /\ NoRun
  /\ users = [u \in {"u1", "u2"} |->
               [newUser(IF u = "u1" THEN "a@example.org" ELSE "b@example.org", "p0")
                  EXCEPT !.stripe_customer_id = <<IF u = "u1" THEN "cus_1" ELSE "cus_2">>]]
  /\ password_resets = <<>>
  /\ invoices = <<>>
  /\ accepted = <<>>

BillingNext ==
  \/ \E session \in CheckoutSessions :
       handleWebhookEvent([type |-> "checkout.session.completed", object |-> session])
  \/ \E sub \in SubscriptionObjects :
       handleWebhookEvent([type |-> "customer.subscription.updated", object |-> sub])
  \/ \E sub \in SubscriptionObjects :
       handleWebhookEvent([type |-> "customer.subscription.deleted", object |-> sub])
  \/ \E inv \in InvoiceObjects :
       handleWebhookEvent([type |-> "invoice.paid", object |-> inv])
  \/ \E inv \in InvoiceObjects :
       handleWebhookEvent([type |-> "invoice.payment_failed", object |-> inv])
  \/ handleWebhookEvent([type |-> "customer.created", object |-> null])

Billing == BillingInit /\ [][BillingNext]_vars

\* ------------------------------------------------------------------------
\* Properties
\* ------------------------------------------------------------------------
SubRecords == {"ofsted", "performance", "contact", "admissions", "demographics", "finances"}

\* x is neither null nor undefined
NonNull(x) == x # null /\ x # undefined

\* the second run of enrichSchool on the record has returned
RanTwice == pc = "done" /\ prev # undefined

\* C1: when enrichSchool has run twice on the same record in the same mode,
\* each of the six sub-records of the second run equals that of the first.
RerunIdentical == RanTwice => \A f \in SubRecords : enriched[f] = prev[f]

\* the five buckets of an ethnicity breakdown; export.js names the first
\* whitebritish
EthnicitySum(e) ==
  (IF "white" \in DOMAIN e THEN e.white ELSE e.whitebritish)
    + e.asian + e.black + e.mixed + e.other

\* C2: in every demographics sub-record (of the orchestrator, of a generator
\* called on its own, of the export) the five ethnicity buckets sum to 100.
EthnicitiesSumTo100 ==
  /\ enriched.demographics # undefined =>
       EthnicitySum(enriched.demographics.ethnicities) = 100
  /\ called.demographics # undefined =>
       EthnicitySum(called.demographics.ethnicities) = 100
  /\ exported # undefined =>
       EthnicitySum(exported.demographics.ethnicities) = 100

PreferencesSum(a) ==
  a.applications.first + a.applications.second + a.applications.third

\* C3: in every admissions sub-record, of every phase, applications.first +
\* applications.second + applications.third equals applications.total.
PreferencesSumToTotal ==
  /\ enriched.admissions # undefined =>
       PreferencesSum(enriched.admissions) = enriched.admissions.applications.total
  /\ called.admissions # undefined =>
       PreferencesSum(called.admissions) = called.admissions.applications.total
  /\ exported # undefined =>
       PreferencesSum(exported.admissions) = exported.admissions.applications.total

\* an admissions sub-record of extract.js: lastDistanceOffered is there and,
\* where the record has a catchment, its effective radius is within the
\* official one
WithinCatchment(a) ==
  a.oversubscribed =>
    /\ a.lastDistanceOffered # null
    /\ "catchment" \in DOMAIN a =>
         a.catchment.effectiveRadius <= a.catchment.officialRadius

\* C4: in every admissions sub-record with oversubscribed = true,
\* lastDistanceOffered is not null and catchment.effectiveRadius is at most
\* catchment.officialRadius (the export's lastDistanceOffered is a number in
\* every row).
OversubscribedWithinCatchment ==
  /\ enriched.admissions # undefined => WithinCatchment(enriched.admissions)
  /\ called.admissions # undefined => WithinCatchment(called.admissions)
  /\ (exported # undefined /\ exported.admissions.oversubscribed) =>
       /\ exported.admissions.lastDistanceOffered >= 0
       /\ exported.admissions.catchment.effectiveRadius
            <= exported.admissions.catchment.officialRadius

\* the key stages of the performance sub-record p of a school of this phase
KeyStagesOnlyFor(p, phase, hasSixthForm) ==
  /\ NonNull(p.ks2) => phase \in {"Primary", "All-Through", "Special"}
  /\ NonNull(p.ks4) => phase \in {"Secondary", "All-Through", "16 Plus"}
  /\ NonNull(p.ks5) =>
       hasSixthForm /\ phase \in {"Secondary", "All-Through", "16 Plus"}

\* C5: in every generated performance sub-record ks2 is non-null only if the
\* phase is Primary, All-Through or Special, ks4 only if it is Secondary,
\* All-Through or 16 Plus, and ks5 only if the school has a sixth form and
\* its phase is one of those of ks4.
KeyStagesFollowPhase ==
  /\ enriched.performance # undefined =>
       KeyStagesOnlyFor(enriched.performance, school.phase, school.hasSixthForm)
  /\ called.performance # undefined =>
       KeyStagesOnlyFor(called.performance, school.phase, school.hasSixthForm)
  /\ exported # undefined =>
       KeyStagesOnlyFor(exported.performance, exported.phase, exported.hasSixthForm)

\* a generator has returned ks5 for a school with a sixth form and no ks2
SixthFormHasKs5 ==
  /\ school.hasSixthForm
  /\ \/ /\ called.performance # undefined
        /\ called.performance.ks5 # null
        /\ called.performance.ks2 = null
     \/ /\ exported # undefined
        /\ NonNull(exported.performance.ks5)
        /\ ~NonNull(exported.performance.ks2)

\* C6: when the orchestrator has enriched a record, in any mode and whatever
\* the fetches resolved to, a Nursery's performance has ks2, ks4 and ks5 null
\* and a Primary's has ks4 and ks5 null and ks2 non-null.
EnrichedKeyStages ==
  pc = "done" =>
    /\ school.phase = "Nursery" =>
         /\ enriched.performance # undefined
         /\ enriched.performance.ks2 = null
         /\ enriched.performance.ks4 = null
         /\ enriched.performance.ks5 = null
    /\ school.phase = "Primary" =>
         /\ enriched.performance # undefined
         /\ enriched.performance.ks4 = null
         /\ enriched.performance.ks5 = null
         /\ enriched.performance.ks2 # null

\* pupilTeacherRatio (tenths) is pupils / teacherCount to one decimal; with a
\* teacherCount of 0 the quotient is Infinity, which no stored ratio equals
RatioOfCount(f, pupils) ==
  f.teacherCount # 0 /\ f.pupilTeacherRatio = ToFixed(pupils * 10, f.teacherCount)

\* C7: in every finances sub-record pupilTeacherRatio equals the school's
\* pupils (the generator's default where the record has none) divided by the
\* stored teacherCount, rounded to one decimal.
RatioRecomputed ==
  /\ enriched.finances # undefined =>
       RatioOfCount(enriched.finances, IF school.pupils = 0 THEN 100 ELSE school.pupils)
  /\ called.finances # undefined =>
       RatioOfCount(called.finances, IF school.pupils = 0 THEN 100 ELSE school.pupils)
  /\ exported # undefined =>
       RatioOfCount(exported.finance, IF school.pupils = 0 THEN 500 ELSE school.pupils)

\* the values of the fields named in keys of the record r
Fields(r, keys) == {r[f] : f \in DOMAIN r \cap keys}
Values(f) == {f[i] : i \in DOMAIN f}

\* v, in units of 1/unit of a percent, lies in [0, 100]
Percent(v, unit) == 0 <= v /\ v <= 100 * unit

\* the percentages of a performance sub-record of extract.js
PerformancePercents(p) ==
  (IF p.ks2 = null THEN {}
   ELSE Fields(p.ks2, {"readingExpected", "mathsExpected", "writingExpected",
                       "gpsExpected", "combinedExpected", "readingHigher",
                       "mathsHigher", "writingHigher"}))
  \cup
  (IF p.ks4 = null THEN {}
   ELSE {p.ks4.ebacc_entry, p.ks4.grade5EnMa}
        \cup (IF "subjects" \in DOMAIN p.ks4 THEN Values(p.ks4.subjects) ELSE {}))
  \cup
  (IF p.ks5 = null THEN {}
   ELSE {p.ks5.aabOrHigher}
        \cup (IF "destinations" \in DOMAIN p.ks5
              THEN Values(p.ks5.destinations) \cup {p.ks5.vocational.btecDistinctionRate}
              ELSE {}))

\* the percentages of a demographics sub-record of extract.js
DemographicsPercents(m) ==
  {m.fsmPercent, m.ealPercent, m.senPercent} \cup Values(m.ethnicities)

\* the parent-view percentages of an ofsted sub-record
ParentViewPercents(o) == IF o.parentView = null THEN {} ELSE Values(o.parentView)

\* the sub-records of extract.js in r hold percentages only
PercentsOf(r) ==
  /\ r.ofsted # undefined => \A v \in ParentViewPercents(r.ofsted) : Percent(v, 1)
  /\ r.performance # undefined => \A v \in PerformancePercents(r.performance) : Percent(v, 1)
  /\ r.demographics # undefined => \A v \in DemographicsPercents(r.demographics) : Percent(v, 1)

\* the percentages of a row of the export, each in its unit
ExportPercents(x) ==
  /\ \A v \in Values(x.ofsted.parentView) \cup Values(x.demographics.ethnicities) :
       Percent(v, 1)
  /\ \A f \in {"fsmPercent", "ealPercent", "senPercent"} : Percent(x.demographics[f], 10)
  /\ x.performance.ks2 # undefined =>
       /\ \A s \in {"reading", "writing", "maths", "gps"} :
            \A v \in Values(x.performance.ks2[s]) : Percent(v, 1)
       /\ Percent(x.performance.ks2.combined, 1)
  /\ x.performance.ks4 # undefined =>
       /\ Percent(x.performance.ks4.ebaccEntry, 1)
       /\ Percent(x.performance.ks4.grade5EnMa, 2)
  /\ x.performance.ks5 # undefined =>
       /\ Percent(x.performance.ks5.aabOrHigher, 2)
       /\ Percent(x.performance.ks5.destinations.russellGroup, 6)
       /\ \A f \in {"university", "oxbridge", "apprenticeships", "employment"} :
            Percent(x.performance.ks5.destinations[f], 1)

\* C8: every generated percentage (those of performance, the destinations,
\* fsmPercent, ealPercent, senPercent, each ethnicity bucket, those of the
\* parent view) lies in [0, 100].
PercentagesInRange ==
  /\ PercentsOf(enriched)
  /\ PercentsOf(called)
  /\ exported # undefined => ExportPercents(exported)

\* a generator called on its own has returned an ethnicity breakdown whose
\* other bucket the normalisation brought down to 0
OtherBucketAtZero ==
  /\ called.demographics # undefined
  /\ called.demographics.ethnicities.other = 0
  /\ EthnicitySum(called.demographics.ethnicities) > 100

\* oversubscribed, for the tolerance factor 1.1
OverTolerance(a) ==
  a.oversubscribed <=> (10 * a.applications.total > 11 * a.capacity)

\* C9: in every admissions sub-record, of every phase, oversubscribed is true
\* exactly when applications.total > capacity * 1.1.
OversubscribedIffOverTolerance ==
  /\ enriched.admissions # undefined => OverTolerance(enriched.admissions)
  /\ called.admissions # undefined => OverTolerance(called.admissions)
  /\ exported # undefined => OverTolerance(exported.admissions)

\* a generator has returned a record with more applications than places that
\* is not oversubscribed
WithinTolerance ==
  /\ called.admissions # undefined
  /\ called.admissions.applications.total > called.admissions.capacity
  /\ ~called.admissions.oversubscribed

\* C10: the seed of a school's generator is the integer its urn parses to
\* when it parses to one, and the school's id when it does not.
SeedIsUrnOrId ==
  pc \notin {"idle", "called"} =>
    /\ ~parseInt(school.urn).nan => seed = parseInt(school.urn).n
    /\ parseInt(school.urn).nan => seed = school.id

\* the field group a service's data goes to
fieldOf(service) == IF service = "website" THEN "contact" ELSE service

\* the step of enrichSchool that follows the field group
stepAfter(field) ==
  IF field = "ofsted" THEN "performance"
  ELSE IF field = "performance" THEN "contact"
  ELSE "synthetic"

\* C14: in enrich or full mode, whenever a real-data request fails (timeout,
\* status other than 200, nothing parsed), enrichSchool does not throw: the
\* field group is filled by its synthetic generator, drawn from the record's
\* closure, and enrichSchool goes on to its next step.
FetchFailureRecovered ==
  /\ pc # "rejected"
  /\ fetch.outcome \in Failures =>
       /\ mode \in {"enrich", "full"}
       /\ sources[fieldOf(fetch.service)] = "synthetic"
       /\ enriched[fieldOf(fetch.service)] # undefined
       /\ calls[Len(calls)] = [generator |-> fieldOf(fetch.service), closure |-> TheRng]
       /\ pc = stepAfter(fieldOf(fetch.service))

\* the Ofsted request of a record timed out in enrich mode and the
\* performance step is next
OfstedTimedOut ==
  /\ mode = "enrich"
  /\ fetch = [service |-> "ofsted", outcome |-> "timeout"]
  /\ pc = "performance"

GeneratorOrder ==
  <<"ofsted", "performance", "contact", "admissions", "demographics", "finances">>

\* the place of a generator in that order
placeOf(generator) == CHOOSE k \in 1..Len(GeneratorOrder) : GeneratorOrder[k] = generator

\* C12: for each school all synthetic generators draw from a single closure,
\* seeded once for the school, and they are called in the order ofsted,
\* performance, contact, admissions, demographics, finances.
OneRngInFixedOrder ==
  \A i, j \in 1..Len(calls) :
    /\ calls[i].closure = calls[j].closure
    /\ i < j => placeOf(calls[i].generator) < placeOf(calls[j].generator)

\* C11: in the collection handed to the output writer at the end of a run, no
\* two school records share a urn.
HandedUrnsDistinct ==
  writes > 0 =>
    \A j, k \in 1..Len(enrichedSchools) :
      j # k => enrichedSchools[j].school.urn # enrichedSchools[k].school.urn

\* the same school: the same fields but for the id
SameSchool(a, b) == [a EXCEPT !.id = 0] = [b EXCEPT !.id = 0]

\* the urn of the record parses to an integer other than 0, which then is its seed
SeededByUrn(s) == ~parseInt(s.urn).nan /\ parseInt(s.urn).n # 0

\* the sub-records of a school that both runs have enriched are the same in both
SameSubRecords(same(_, _)) ==
  previous # undefined =>
    \A j \in 1..Len(previous.handed), k \in 1..Len(enrichedSchools) :
      same(previous.handed[j].school, enrichedSchools[k].school) =>
        previous.handed[j].sub = enrichedSchools[k].sub

\* C13 as stated: the sub-records of a school depend on that school alone;
\* whatever other schools the input of a run holds, before or after it, a
\* school gets the same sub-records.
SubRecordsOfSchoolAlone == SameSubRecords(SameSchool)

\* C13: the sub-records of a school depend on its own record alone, the id
\* included: a record gets the same sub-records whatever other records the
\* list holds and wherever it stands, and so does a school whose urn is its
\* seed, whatever id its place in the list gives it.
SubRecordsOfRecordAlone ==
  SameSubRecords(LAMBDA a, b : SameSchool(a, b) /\ (a.id = b.id \/ SeededByUrn(a)))

\* the second run has enriched a school at another place of the list, and
\* with another id, than the first, to the same sub-records
MovedSchoolSameSubRecords ==
  /\ previous # undefined
  /\ \E j \in 1..Len(previous.handed), k \in 1..Len(enrichedSchools) :
       /\ j # k
       /\ SameSchool(previous.handed[j].school, enrichedSchools[k].school)
       /\ previous.handed[j].school.id # enrichedSchools[k].school.id
       /\ previous.handed[j].sub = enrichedSchools[k].sub

\* the CSV of the run is missing (the download fails, the cached file cannot
\* be read) or parses to no row
CsvMissingOrUnparseable == gias.kind # "csv" \/ gias.rows = <<>>

\* the static schools.js the run started with is missing or holds no school
NoStaticData == atStart.js = null \/ atStart.js[1].schools = <<>>

OneSchoolAtATime ==
  /\ inFlight \in {0, 1}
  /\ Len(enrichedSchools) = loopI
  /\ (stage = "running" /\ (fetch.service # "none" \/ pc # "idle")) => inFlight = 1
  /\ inFlight = 1 =>
       /\ loopI < Len(schools)
       /\ school = schools[loopI + 1].school
       /\ (loopI > 0 /\ mode \in {"enrich", "full"}) => waited = REQUEST_DELAY_MS
       /\ mode = "quick" => waited = 0

\* the second school of a run in enrich mode is being enriched, after the
\* delay, and a request of its enrichment has ended
SecondSchoolAfterDelay ==
  /\ inFlight = 1
  /\ loopI = 1
  /\ mode = "enrich"
  /\ waited = REQUEST_DELAY_MS
  /\ fetch.service = "performance"

\* C19: within a run the output is written at most once and only when every
\* school of the pass has been enriched, what is written is the whole pass,
\* and until then both files are as they were when the run started, also
\* when the run has ended before the end of the pass.
WrittenOnceAfterThePass ==
  /\ writes \in {0, 1}
  /\ writes = 0 => schoolsJs = atStart.js /\ schoolsJson = atStart.json
  /\ writes = 1 =>
       /\ stage = "exited"
       /\ inFlight = 0
       /\ Len(enrichedSchools) = Len(schools)
       /\ \A k \in 1..Len(schools) : enrichedSchools[k].school = schools[k].school
       /\ schoolsJs \in {atStart.js, <<fileOf(enrichedSchools, clock)>>}
       /\ schoolsJson \in {atStart.json, <<fileOf(enrichedSchools, clock)>>}

\* a run has written both files after a pass over more than one school
WrittenAfterThePass ==
  /\ writes = 1
  /\ Len(schools) > 1
  /\ Len(enrichedSchools) = Len(schools)
  /\ schoolsJs = <<fileOf(enrichedSchools, clock)>>
  /\ schoolsJson = schoolsJs
  /\ schoolsJs # atStart.js

\* two files are the same but for the time of generation
sameButTimestamp(f, g) ==
  IF f = null \/ g = null THEN f = g
  ELSE [f[1] EXCEPT !.generated = 0] = [g[1] EXCEPT !.generated = 0]

\* C20: a second run in the same mode, with the services as they were and
\* with the CSV as it was (the same rows, or again none, so that the run
\* reads the schools.js the first run wrote), writes what the first run wrote
\* but for the time of generation.
RerunReproducesOutput ==
  (/\ previous # undefined
   /\ previous.exitCode = <<0>>
   /\ exitCode = <<0>>
   /\ gias = previous.gias) =>
    /\ sameButTimestamp(schoolsJs, previous.js)
    /\ sameButTimestamp(schoolsJson, previous.json)

\* the second run had no CSV, read the file the first run wrote and wrote the
\* same again, at another time
RerunFromArtifact ==
  /\ previous # undefined
  /\ previous.exitCode = <<0>>
  /\ exitCode = <<0>>
  /\ gias = previous.gias
  /\ gias.kind = "unavailable"
  /\ Len(enrichedSchools) > 1
  /\ schoolsJs # previous.js
  /\ sameButTimestamp(schoolsJs, previous.js)

\* the multiplier of the school's rating is above 0, below those of the
\* ratings before it in the order given and above those of the ratings after it
strictlyOrdered(order) ==
  \A a, b \in 1..Len(order) :
    (a < b /\ school.ofstedRating \in {order[a], order[b]}) =>
      multOf(order[a]) > multOf(order[b]) /\ multOf(order[b]) > 0

\* C21 as stated: multiplier(Outstanding) > multiplier(Good) > multiplier(N/A)
\* > multiplier(Requires Improvement) > multiplier(Inadequate) > 0.
MultiplierOrderGoodAboveNA ==
  strictlyOrdered(<<"Outstanding", "Good", "N/A", "Requires Improvement", "Inadequate">>)

\* C21: the multipliers are strictly ordered, multiplier(Outstanding) >
\* multiplier(N/A) > multiplier(Good) > multiplier(Requires Improvement) >
\* multiplier(Inadequate) > 0, whatever school is being enriched.
MultiplierOrder ==
  strictlyOrdered(<<"Outstanding", "N/A", "Good", "Requires Improvement", "Inadequate">>)

\* a Good school has been enriched with generated performance, its
\* multiplier below that of N/A
GoodEnrichedBelowNA ==
  /\ pc = "done"
  /\ school.ofstedRating = "Good"
  /\ sources.performance = "synthetic"
  /\ multOf("Outstanding") > multOf("N/A")
  /\ multOf("N/A") > multOf(school.ofstedRating)

\* the file the last call of extractGIAS met was written less than 24 hours
\* before the call
metFreshCache ==
  giasCall.cached # null /\ giasCall.at - giasCall.cached[1].mtime < CACHE_HOURS

\* C22: a call of extractGIAS that meets a cached file written less than 24
\* hours before makes no download, leaves the file as it is and returns the
\* rows of the file; a call makes a download only when there is no cached
\* file or the file is 24 hours old or older.
FreshCacheNoDownload ==
  giasCall # undefined =>
    /\ giasCall.downloaded <=> ~metFreshCache
    /\ metFreshCache =>
         /\ cache = giasCall.cached
         /\ gias.kind = "csv" => gias.rows = cache[1].rows

\* a call met a file 23 hours old and made no download; the file has two rows
CachedFileUsedAt23Hours ==
  /\ giasCall # undefined
  /\ giasCall.cached # null
  /\ giasCall.at - giasCall.cached[1].mtime = CACHE_HOURS - 1
  /\ ~giasCall.downloaded
  /\ gias.kind = "csv"
  /\ Len(gias.rows) = 2

\* the ids of the list are 1..N in the order of the list
consecutiveIds(list) == \A k \in 1..Len(list) : list[k].school.id = k

\* C23: in every collection transformGIAS returns, the record ids are the
\* consecutive integers 1..N in record order, with no gaps and no duplicates.
TransformedIdsConsecutive == stage = "transformed" => consecutiveIds(schools)

\* the year groups of the phase
yearGroups(s) ==
  IF s.phase \in {"Primary", "Reception"} THEN 7
  ELSE IF s.phase = "Secondary" THEN (IF s.hasSixthForm THEN 7 ELSE 5)
  ELSE IF s.phase = "All-Through" THEN 14
  ELSE 5

\* pupils / yearGroups, rounded, and 15 at least
intakeYear(s) ==
  IF MathRound(s.pupils, yearGroups(s)) < 15 THEN 15 ELSE MathRound(s.pupils, yearGroups(s))

\* C24: for a school that is no Nursery and has pupils, admissions.capacity,
\* as enrichSchool generates it and as the export generates it, is pupils
\* divided by the year groups of the phase, rounded, and never below the
\* minimum of 15; for a Primary school with 450 pupils it is 64.
CapacityIsIntakeYear ==
  (school.phase # "Nursery" /\ school.pupils > 0) =>
    /\ (pc = "done" /\ enriched.admissions # undefined) =>
         enriched.admissions.capacity = intakeYear(school)
    /\ pc = "exported" =>
         /\ exported.admissions.capacity = intakeYear(school)
         /\ (school.phase = "Primary" /\ school.pupils = 450) => exported.admissions.capacity = 64

\* C25: when enrichSchool has returned, in every mode and whatever the three
\* requests brought, the record carries all six sub-records, and a field
\* group whose source is recorded as real carries a value of the real source.
ReturnedCarriesAllSix ==
  pc = "done" =>
    /\ \A f \in SubRecords : enriched[f] # undefined
    /\ \A g \in {"ofsted", "performance", "contact"} :
         sources[g] = "real" => NonNull(enriched[g])

\* the name of a criterion: criterion in part_004, category in export.js
criterionOf(c) == IF "criterion" \in DOMAIN c THEN c.criterion ELSE c.category

\* the first entry is Looked After Children and every priority is the place
\* of its entry
numberedFromLookedAfter(list) ==
  /\ criterionOf(list[1]) = "Looked After Children"
  /\ \A k \in 1..Len(list) : list[k].priority = k

\* C26: in every list of admission criteria, of enrichSchool, of a generator
\* called on its own and of the export, the first entry is Looked After
\* Children with priority 1 and the priority of each entry is its place in the
\* list, also with a Faith or an Aptitude criterion in it.
CriteriaNumberedByPlace ==
  /\ "criteria" \in DOMAIN enriched.admissions =>
       numberedFromLookedAfter(enriched.admissions.criteria)
  /\ "criteria" \in DOMAIN called.admissions =>
       numberedFromLookedAfter(called.admissions.criteria)
  /\ pc = "exported" => numberedFromLookedAfter(exported.admissions.criteria)


\* the record was made of the row: the same columns, the id apart
madeOf(record, row) == [record.school EXCEPT !.id = 0] = [row.school EXCEPT !.id = 0]

\* C27: every record transformGIAS returned comes from a row of the CSV whose
\* local authority is one of the target areas of the version and whose
\* establishment status is open; a row that is not open or lies outside the
\* target areas is never in the output.
TransformedFromOpenTargetRows ==
  stage = "transformed" =>
    \A k \in 1..Len(schools) :
      \E j \in 1..Len(gias.rows) :
        /\ madeOf(schools[k], gias.rows[j])
        /\ gias.rows[j].school.borough \in targetOf(version)
        /\ gias.rows[j].open


\* the sub-records no service is asked for
AlwaysSynthetic == {"admissions", "demographics", "finances"}

\* C28: the admissions, demographics and finances of a record are the same
\* whether its Ofsted, performance and website fetches succeed or fail: of two
\* runs of enrichSchool on the record in the same mode, whatever the services
\* answered in each, the three sub-records are equal.
FetchOutcomeLeavesOthersAlone ==
  RanTwice => \A f \in AlwaysSynthetic : enriched[f] = prev[f]


\* the hour in which the row of a reset was inserted
requestedAt(row) == CHOOSE t \in 0..MaxHours : datetime(t) = row.created_at

\* no token is accepted twice
TokenAcceptedOnce ==
  \A j, k \in 1..Len(accepted) : accepted[j].token = accepted[k].token => j = k

\* no token is accepted more than an hour after it was asked for
TokenAcceptedInTime ==
  \A k \in 1..Len(accepted) :
    accepted[k].at - requestedAt(password_resets[accepted[k].row]) <= RESET_HOURS

\* C29: a reset token changes a password at most once, and is never accepted
\* after the hour it is valid for, whatever the order of the requests and the
\* confirmations: of the calls of resetPassword that returned, no two carry
\* the same token and none came more than an hour after its token was made.
ResetTokenOnceAndInTime == TokenAcceptedOnce /\ TokenAcceptedInTime


\* C30: after any sequence of webhook events (checkout completed,
\* subscription updated or deleted, invoice paid, invoice payment failed)
\* every user whose subscription_status is 'canceled' has the plan 'free'.
CanceledMeansFree ==
  \A u \in DOMAIN users : users[u].subscription_status = "canceled" => users[u].plan = "free"
=============================================================================
